---- MODULE Spec2Model ----
(***************************************************************************)
(* Click-through arbitration of the desktop character overlay.            *)
(*                                                                         *)
(* Main process: CursorMonitor (src/main/services/cursor-monitor.ts; its   *)
(* build in scripts/set_version.js adds drag mode and the application      *)
(* wiring).  Renderer: setupClickThrough in "Manual CSS Hover Mode"        *)
(* (unnamed/part_016) and the pointer drag of the character                *)
(* (unnamed/part_013).  The Rust input helper is an external process: its  *)
(* lifetime and the lines it writes are environment inputs.                *)
(*                                                                         *)
(* Three runs of the Electron build are specified.  Spec is an X11         *)
(* session: the cursor sample is the native query and the whole renderer   *)
(* is in play.  SpecHelper and SpecShortcut are Wayland sessions, the      *)
(* user's pointer resting over the character: in the first the helper      *)
(* lives, dies and writes its state and cursor lines, in the second it     *)
(* writes shortcut lines.                                                  *)
(*                                                                         *)
(* The renderer of the Tauri build (src/renderer/modules) has three runs:  *)
(* SpecWiggle is the wiggle detection and the evasion of interactions.ts,  *)
(* SpecGuard the same while the chat, the settings panel, drag mode and    *)
(* the screensaver come and go, SpecRegistry the registration of the       *)
(* global shortcuts by applyConfig.  SpecCount runs the direction-change   *)
(* loop of the wiggle check alone on bounded histories, SpecEvasion runs   *)
(* performEvasion await by await and timer by timer, SpecCharacter is the  *)
(* wiggle detector of character.ts, SpecChat the click on the character    *)
(* and the dismissal of the bubble.  SpecReader is the input helper        *)
(* itself, as the specification describes it, SpecDevices the same with    *)
(* any set of devices open at startup and devices failing.                 *)
(*                                                                         *)
(* Four runs look at calls that overlap.  SpecLifecycle calls start() and  *)
(* stop() of the monitor any number of times while helpers are spawned     *)
(* and exit, SpecBounds is the bounds-tracking variant of the monitor      *)
(* (unnamed/part_004) with forceInteractive(), SpecOverlap saves the       *)
(* settings while the shortcut updaters of an earlier applyConfig still    *)
(* await, SpecScreensaver presses the screensaver shortcut while           *)
(* startScreensaver or stopScreensaver still await.                        *)
(*                                                                         *)
(* Coordinates are a small grid; times are milliseconds.                   *)
(***************************************************************************)
EXTENDS Integers, Sequences, FiniteSets, TLC

\* ------------------------------------------------------------------ bounds
MaxX == 3
MaxQueue == 1
MaxHelpers == 2
MaxPending == 2
MaxChords == 5
MaxScreen == 3
MaxDelta == 2
MaxDevices == 2
MaxSamples == 4
MaxEvasions == 2
RandomSteps == 2
MaxClickTimers == 2
\* settings are saved while fewer than MaxCalls IPC calls of the shortcut
\* updaters await their answer
MaxCalls == 2
\* presses of the screensaver shortcut
MaxToggles == 3

\* ------------------------------------------------------- program constants
POLL_INTERVAL == 50
FORCE_RESET_INTERVAL == 200
WIGGLE_HISTORY_SIZE == 20
WIGGLE_THRESHOLD == 8
WIGGLE_TIME_WINDOW == 1000
EVASION_COOLDOWN == 5000
PROXIMITY_THRESHOLD == 300
\* character.ts: WIGGLE_THRESHOLD ("Number of direction flips"), WIGGLE_TIMEOUT
\* and WIGGLE_MIN_SPEED of the detector of the character
CHARACTER_WIGGLE_THRESHOLD == 4
WIGGLE_TIMEOUT == 500
WIGGLE_MIN_SPEED == 5

\* ------------------------------------------------------------- value sets
\* global cursor positions: one row of the screen, the row the window is on
Points == (0..MaxX) \X {0}

\* win.getBounds(): the origin the window manager placed the window at
bounds == <<1, 0>>

\* elements tracked for manual hover (three of the seven of the source)
hoverElements == <<"character", "backpack", "speech-bubble">>
HoverIds == {hoverElements[i] : i \in 1..Len(hoverElements)}

\* elements whose "hidden" class is toggled at run time
HideableIds == {"speech-bubble", "settings-panel"}

HelperIds == 1..MaxHelpers

\* the window of the Tauri build: its size, where it starts and where an
\* evasion may put it (the second is out of reach of the cursor)
WindowSize == <<300, 300>>
HomePosition == <<100, 100>>
WindowPositions == {HomePosition, <<1000, 100>>}

\* 'cursor-pos' payloads: the cursor stays on one row near the middle of the
\* home window and reverses between two columns five pixels apart
CursorY == 250
CursorXs == {245, 250}
RestX == 245

\* time between two 'cursor-pos' events: a burst, or a pause as long as the
\* wiggle window
EventGaps == {0, WIGGLE_TIME_WINDOW}

\* the delay of the timer that moves the window in performEvasion
TELEPORT_DELAY == 250

\* the four global shortcuts of the Tauri build and the chords a
\* configuration may name; the last chord is one the system refuses (it is
\* malformed, or another application holds it)
Features == {"chat", "drag", "visibility", "screensaver"}
Chords == 1..MaxChords
Unavailable == {MaxChords}

\* defaultShortcuts of the store
defaultShortcuts ==
    [f \in Features |->
        CASE f = "chat" -> 1 [] f = "drag" -> 2
          [] f = "visibility" -> 3 [] f = "screensaver" -> 4]

\* the configurations the settings panel saves: the user edits the chat and
\* the drag chord
Configs ==
    {cfg \in [Features -> Chords] :
        \A f \in {"visibility", "screensaver"} : cfg[f] = defaultShortcuts[f]}

\* the configurations saved while the user edits the chat chord only
ChatConfigs == {cfg \in Configs : cfg["drag"] = defaultShortcuts["drag"]}

\* no update*Shortcut call of the feature is in flight
Idle == [stage |-> "idle", newShortcut |-> 0]

\* the input helper: screen_bounds, the relative deltas a pointer reports,
\* the keys of a keyboard and the shortcut table
ScreenWidth == MaxScreen
ScreenHeight == MaxScreen - 1
Deltas == (-MaxDelta..MaxDelta) \ {0}
ModifierKeys == {"meta", "ctrl", "alt", "shift"}
TriggerKeys == {"F", "D"}
DeviceIds == 1..MaxDevices
Running == -1
ShortcutSpec ==
    <<[modifiers |-> {"meta", "shift"}, key |-> "F", name |-> "toggle_chat"],
      [modifiers |-> {"meta", "shift"}, key |-> "D", name |-> "toggle_drag"],
      [modifiers |-> {"meta"}, key |-> "F", name |-> "other"]>>

\* shortcut names the helper may report; "" is an absent or empty name
ShortcutNames == {"toggle_chat", "toggle_drag", "other", ""}

\* the lines a helper may write, by what JSON.parse and the switch make of
\* them: its state and cursor lines (and what is not a line at all)
Lines ==
    [kind : {"ready", "click", "heartbeat", "error", "unknown_type",
             "garbage", "json_null", "cursor_no_y"}]
    \cup [kind : {"cursor"}, pos : Points]

\* the shortcut lines of a helper
ShortcutLines == [kind : {"shortcut"}, name : ShortcutNames]

VARIABLES
    \* --- CursorMonitor (main process)
    intervalId,          \* TRUE iff the poll timer is set
    isOverInteractive,   \* last interactive state received from the renderer
    sinceForceReset,     \* now - lastForceReset at the last tick, saturated
    isWayland,           \* session type detected at construction
    helperAvailable,     \* findHelperPath() finds the binary
    helperProcess,       \* 0 = null, else the id of the tracked child
    helperReady,
    helperCursor,        \* <<helperCursorX, helperCursorY>>
    onShortcut,          \* TRUE iff a shortcut callback is set
    isDragMode,          \* drag mode toggled by the toggle_drag shortcut
    \* --- application lifecycle (main)
    appPhase,            \* "launching", "ready", "quit"
    \* --- the window
    ignoreMouse,         \* last value given to win.setIgnoreMouseEvents
    \* --- renderer
    hidden,              \* [HideableIds -> BOOLEAN], the "hidden" class
    manualHover,         \* [HoverIds -> BOOLEAN], the "manual-hover" class
    isDragging,          \* state.isDragging
    \* --- IPC in flight
    cursorPositionQ,     \* main -> renderer, 'cursor-position' payloads
    overInteractiveQ,    \* renderer -> main, 'set-over-interactive' payloads
    \* --- environment
    realCursor,          \* where the user's pointer really is (global)
    helpers,             \* [HelperIds -> helper process record]
    \* --- renderer of the Tauri build: wiggle detection and evasion
    cursorHistory,       \* sequence of [x, age]: age is now - t at the last event
    sinceEvasion,        \* now - lastEvasionTime at the last event, saturated
    pendingChecks,       \* checkWiggleAndEvade calls awaiting the window geometry
    windowPos,           \* appWindow.outerPosition()
    teleport,            \* the 250 ms timer of performEvasion: "none", "waiting", "due"
    isWindowLocked,      \* state.isWindowLocked
    screensaverMode,     \* body class 'screensaver-mode'
    dragModeActive,      \* body class 'drag-mode-active'
    oscillating,         \* the user's hand: the cursor has started to reverse
    \* --- renderer of the Tauri build: global shortcuts
    config,              \* state.config.shortcuts: [Features -> Chords]
    currentShortcut,     \* current*Shortcut of each module: a chord, or 0 for ''
    registered,          \* the plugin's registry: [Chords -> a feature or "none"]
    updating,            \* [Features -> the update*Shortcut call in flight]
    \* --- the input helper (Device Reader)
    cursor,              \* InputState.cursor: <<x, y>>
    modifiers,           \* InputState.modifiers: the modifier keys held
    emitted,             \* the events the last input event made it write
    devices,             \* [DeviceIds -> "pointer", "keyboard" or "none" (not open)]
    ready,               \* the counts its Ready event reported at startup
    exitStatus,          \* Running, or the status the process exited with
    lastKey,             \* [ModifierKeys -> the last event observed for the key]
    \* --- renderer of the Tauri build: the wiggle check taken alone
    counted,             \* directionChanges at the end of the loop, -1 before it ran
    \* --- renderer of the Tauri build: character.ts and chat.ts
    wiggleHistory,       \* the signs of the strokes of the mouse over the character
    lastMouseX,          \* clientX of the last mousemove over the character
    jump,                \* "animating" while moveToRandomLocation moves the window, else "none"
    jumpBubbleTimer,     \* TRUE iff the setTimeout(hideSpeechBubble, 2000) of a jump is pending
    opacity,             \* document.body.style.opacity: 1 (visible) or 0
    currentState,        \* state.currentState, a CharacterState
    evasions,            \* [EvasionStages -> the calls of performEvasion at the stage]
    monitorSize,         \* monitor.size of the monitor currentMonitor() resolves to
    chatInputHidden,     \* the "hidden" class of the chat input container
    clickTimers,         \* the 1.5 s timers of handleCharacterClick that are pending
    idleTimeout,         \* TRUE iff idleTimeout holds a pending timer
    bubbleTimeout,       \* TRUE iff bubbleTimeout holds a pending timer
    \* --- renderer (Tauri build): overlapping shortcut updates
    requests,            \* the IPC calls of the shortcut updaters awaiting their answer
    \* --- CursorMonitor: timers
    activeTimers,        \* setInterval timers of the monitor that have not been cleared
    \* --- bounds-tracking CursorMonitor
    lastCursorInBounds,  \* the in-bounds value of the last notification (or forced)
    lastSent,            \* the last cursor-bounds-changed message sent: "entered", "left", "none"
    \* --- renderer (Tauri build): screensaver
    isScreensaverActive, \* isScreensaverActive of the screensaver module
    fullscreen,          \* the window is fullscreen
    saverCalls,          \* startScreensaver / stopScreensaver calls, by the await they are at
    \* --- observation of the last step
    effect               \* what the last operation did (calls issued)

vars == <<intervalId, isOverInteractive, sinceForceReset, isWayland,
          helperAvailable, helperProcess, helperReady, helperCursor,
          onShortcut, isDragMode, appPhase, ignoreMouse, hidden,
          manualHover, isDragging, cursorPositionQ, overInteractiveQ,
          realCursor, helpers, cursorHistory, sinceEvasion, pendingChecks,
          windowPos, teleport, isWindowLocked, screensaverMode,
          dragModeActive, oscillating, config, currentShortcut, registered,
          updating, cursor, modifiers, emitted, devices, ready, exitStatus,
          lastKey, counted,
          wiggleHistory,
          lastMouseX,
          jump,
          jumpBubbleTimer,
          opacity,
          currentState,
          evasions,
          monitorSize,
          chatInputHidden,
          clickTimers,
          idleTimeout,
          bubbleTimeout,
          requests,
          activeTimers,
          lastCursorInBounds,
          lastSent,
          isScreensaverActive,
          fullscreen,
          saverCalls, effect>>

chatVars == <<chatInputHidden, clickTimers, idleTimeout, bubbleTimeout>>

\* the state of the bounds-tracking variant of the monitor
boundsVars == <<lastCursorInBounds, lastSent>>

\* the state of the screensaver module
screensaverVars == <<isScreensaverActive, fullscreen, saverCalls>>

\* the state of the asynchronous calls of the renderer, and of the variants
\* of the monitor
asyncVars == <<requests, boundsVars, screensaverVars>>

\* the state of the modules of the renderer
moduleVars == <<counted, wiggleHistory, lastMouseX, jump, jumpBubbleTimer,
                opacity, currentState, evasions, monitorSize, chatVars,
                asyncVars>>

characterVars == <<counted,
                  wiggleHistory,
                  lastMouseX,
                  jump,
                  jumpBubbleTimer,
                  opacity,
                  currentState,
                  evasions,
                  monitorSize,
                  chatInputHidden,
                  clickTimers,
                  idleTimeout,
                  bubbleTimeout,
                  requests,
                  activeTimers,
                  lastCursorInBounds,
                  lastSent,
                  isScreensaverActive,
                  fullscreen,
                  saverCalls>>

readerVars == <<cursor, modifiers, emitted, devices, ready, exitStatus, lastKey>>
registryVars == <<config, currentShortcut, registered, updating>>
wiggleVars == <<cursorHistory, sinceEvasion, pendingChecks, windowPos,
                teleport, isWindowLocked, screensaverMode, dragModeActive,
                oscillating>>
monitorVars == <<intervalId, isOverInteractive, sinceForceReset, helperProcess,
                 helperReady, helperCursor, onShortcut, isDragMode>>
sessionVars == <<isWayland, helperAvailable>>
rendererVars == <<hidden, manualHover, isDragging>>

\* ------------------------------------------------------------- geometry
\* getBoundingClientRect() of each element, in window-local coordinates
Rect(id) ==
    CASE id = "speech-bubble"       -> [left |-> 0, right |-> 0, top |-> 0, bottom |-> 0]
      [] id = "character"           -> [left |-> 1, right |-> 1, top |-> 0, bottom |-> 0]
      [] id = "backpack"            -> [left |-> 2, right |-> 2, top |-> 0, bottom |-> 0]
      [] id = "character-container" -> [left |-> 1, right |-> 2, top |-> 0, bottom |-> 0]

InRect(x, y, id) ==
    LET rect == Rect(id)
    IN  x >= rect.left /\ x <= rect.right /\ y >= rect.top /\ y <= rect.bottom

hasHiddenClass(id, hid) == id \in HideableIds /\ hid[id]

\* a plausible slip: the "hidden" class is not looked at
isPointInRect_IgnoresHidden(x, y, id, hid) == InRect(x, y, id)

\* isPointInRect(x, y, el) of the renderer
isPointInRect(x, y, id, hid) ==
    IF hasHiddenClass(id, hid) THEN FALSE
    ELSE IF id = "settings-panel" THEN TRUE
    ELSE InRect(x, y, id)

\* local coordinates of a global point: cursor.x - bounds.x, cursor.y - bounds.y
Local(p) == <<p[1] - bounds[1], p[2] - bounds[2]>>

\* the global point over the character, where the resting pointer is
OverCharacter == <<Rect("character").left + bounds[1], Rect("character").top + bounds[2]>>

\* what a step did: the operation, the native call it made on the window, the
\* cursor sample it sent or handled, the interactive state it reported
NoEffect(op) == [op |-> op, call |-> "none", sample |-> <<0, 0>>,
                 reported |-> "none"]

Min(a, b) == IF a <= b THEN a ELSE b

\* ------------------------------------------------------------------ Init
NoHelper == [st |-> "none", term |-> FALSE, pending |-> "none", pipe |-> FALSE]

InitMain ==
    /\ intervalId = FALSE
    /\ isOverInteractive = FALSE
    /\ sinceForceReset = FORCE_RESET_INTERVAL + POLL_INTERVAL
    /\ helperProcess = 0
    /\ helperReady = FALSE
    /\ helperCursor = <<0, 0>>
    /\ onShortcut = FALSE
    /\ isDragMode = FALSE
    /\ appPhase = "launching"
    /\ ignoreMouse = FALSE
    /\ hidden = [id \in HideableIds |-> TRUE]
    /\ manualHover = [id \in HoverIds |-> FALSE]
    /\ isDragging = FALSE
    /\ cursorPositionQ = <<>>
    /\ overInteractiveQ = <<>>
    /\ helpers = [h \in HelperIds |-> NoHelper]
    /\ sinceEvasion = EVASION_COOLDOWN
    /\ pendingChecks = <<>>
    /\ windowPos = HomePosition
    /\ teleport = "none"
    /\ isWindowLocked = FALSE
    /\ screensaverMode = FALSE
    /\ dragModeActive = FALSE
    /\ oscillating = FALSE
    /\ config = defaultShortcuts
    /\ currentShortcut = [f \in Features |-> 0]
    /\ registered = [c \in Chords |-> "none"]
    /\ updating = [f \in Features |-> Idle]
    /\ cursor = <<ScreenWidth \div 2, ScreenHeight \div 2>>
    /\ modifiers = {}
    /\ emitted = <<>>
    /\ effect = NoEffect("other")

\* the calls of performEvasion that may be in flight at once
EvasionStages == {"monitor", "timer250", "moved", "failed", "timer300",
                  "timer2000"}

\* the awaits a startScreensaver call ("saving", "resizing", "fullscreen")
\* or a stopScreensaver call ("fadeOut", "windowing") can be at, and the ways
\* a call has ended
SaverStages == {"saving", "resizing", "fullscreen", "fadeOut", "windowing",
                "started", "stopped", "failed"}

\* the character and chat modules of the renderer as loaded
CharacterLoaded ==
    /\ wiggleHistory = <<>>
    /\ lastMouseX = 0
    /\ jump = "none"
    /\ jumpBubbleTimer = FALSE
    /\ opacity = 1
    /\ currentState = "idle"
    /\ evasions = [stage \in EvasionStages |-> 0]
    /\ chatInputHidden = TRUE
    /\ clickTimers = 0
    /\ idleTimeout = FALSE
    /\ bubbleTimeout = FALSE
    /\ requests = <<>>
    /\ activeTimers = 0
    /\ lastCursorInBounds = FALSE
    /\ lastSent = "none"
    /\ isScreensaverActive = FALSE
    /\ fullscreen = FALSE
    /\ saverCalls = [stage \in SaverStages |-> 0]

CharacterRest ==
    /\ CharacterLoaded
    /\ monitorSize = <<1920, 1080>>

InitCommon ==
    /\ InitMain
    /\ cursorHistory = <<>>
    /\ counted = -1
    /\ CharacterRest

\* the devices the helper has open: what discovery found, by class
countOf(devs, kind) == Cardinality({d \in DeviceIds : devs[d] = kind})

\* the helper after its startup, with the devices it could open: it has
\* written its Ready event and is in its event loop
ReaderStarted(devs) ==
    /\ devices = devs
    /\ ready = [pointer_count |-> countOf(devs, "pointer"),
                keyboard_count |-> countOf(devs, "keyboard")]
    /\ exitStatus = Running
    /\ lastKey = [m \in ModifierKeys |-> "none"]

\* a pointer and a keyboard
OneOfEach == [d \in DeviceIds |-> IF d = 1 THEN "pointer"
                                  ELSE IF d = 2 THEN "keyboard" ELSE "none"]

\* an X11 session
Init ==
    /\ InitCommon
    /\ ReaderStarted(OneOfEach)
    /\ isWayland = FALSE
    /\ helperAvailable = FALSE
    /\ realCursor \in Points

\* a Wayland session, the pointer resting over the character
InitHelper ==
    /\ InitCommon
    /\ ReaderStarted(OneOfEach)
    /\ isWayland = TRUE
    /\ helperAvailable \in BOOLEAN
    /\ realCursor = OverCharacter

\* --------------------------------------------------- CursorMonitor: helper
\* spawn() hands back a child that runs, or one that fails to start and
\* reports it through an 'error' event
SpawnedHelpers ==
    {[st |-> "running", term |-> FALSE, pending |-> "none", pipe |-> TRUE],
     [st |-> "dead", term |-> FALSE, pending |-> "error", pipe |-> FALSE]}

FreshHelper(h) ==
    /\ helpers[h].st = "none"
    /\ \A g \in HelperIds : helpers[g].st = "none" => h <= g

\* startHelper()
startHelper ==
    IF helperProcess # 0 \/ ~helperAvailable
    THEN UNCHANGED <<helperProcess, helpers>>
    ELSE \E h \in HelperIds, child \in SpawnedHelpers :
            /\ FreshHelper(h)
            /\ helperProcess' = h
            /\ helpers' = [helpers EXCEPT ![h] = child]

\* a plausible slip: the reference is dropped without signalling the child
stopHelper_NoSignal ==
    /\ helperProcess' = 0
    /\ helperReady' = FALSE
    /\ UNCHANGED helpers

\* stopHelper()
stopHelper ==
    IF helperProcess # 0
    THEN /\ helpers' = [helpers EXCEPT ![helperProcess].term = TRUE]
         /\ helperProcess' = 0
         /\ helperReady' = FALSE
    ELSE UNCHANGED <<helpers, helperProcess, helperReady>>

\* a plausible slip: start() does not return early while the timer is set
start_Unguarded ==
    /\ IF isWayland THEN startHelper ELSE UNCHANGED <<helperProcess, helpers>>
    /\ intervalId' = TRUE
    /\ activeTimers' = activeTimers + 1

\* start()
start ==
    IF intervalId
    THEN UNCHANGED <<intervalId, activeTimers, helperProcess, helpers>>
    ELSE /\ IF isWayland THEN startHelper ELSE UNCHANGED <<helperProcess, helpers>>
         /\ intervalId' = TRUE
         /\ activeTimers' = activeTimers + 1

\* stop()
stop ==
    /\ intervalId' = FALSE
    /\ activeTimers' = IF intervalId THEN activeTimers - 1 ELSE activeTimers
    /\ stopHelper

\* the frame of a call of start() or stop() by a user of the monitor
lifecycleFrame == <<isOverInteractive, sinceForceReset, helperCursor, onShortcut,
                    isDragMode, appPhase, ignoreMouse, cursorPositionQ,
                    overInteractiveQ, realCursor, sessionVars, wiggleVars,
                    registryVars, readerVars, moduleVars, rendererVars>>

\* cursorMonitor.start() is called, for the first time since the last stop()
\* or again
StartCall ==
    /\ start
    /\ effect' = [NoEffect("start") EXCEPT
                    !.call = IF intervalId THEN "repeated" ELSE "first"]
    /\ UNCHANGED helperReady
    /\ UNCHANGED lifecycleFrame

\* cursorMonitor.stop() is called
StopCall ==
    /\ stop
    /\ effect' = NoEffect("stop")
    /\ UNCHANGED lifecycleFrame

\* app.whenReady(): cursorMonitor.start(); cursorMonitor.setShortcutCallback(..)
AppReady ==
    /\ appPhase = "launching"
    /\ appPhase' = "ready"
    /\ start
    /\ onShortcut' = TRUE
    /\ effect' = NoEffect("other")
    /\ UNCHANGED <<isOverInteractive, sinceForceReset, helperReady, helperCursor,
                   isDragMode, ignoreMouse, cursorPositionQ, overInteractiveQ,
                   realCursor>>
    /\ UNCHANGED sessionVars
    /\ UNCHANGED wiggleVars
    /\ UNCHANGED registryVars
    /\ UNCHANGED readerVars
    /\ UNCHANGED moduleVars
    /\ UNCHANGED rendererVars

\* 'window-all-closed' / 'will-quit': cursorMonitor.stop()
Quit ==
    /\ appPhase = "ready"
    /\ appPhase' = "quit"
    /\ stop
    /\ effect' = NoEffect("other")
    /\ UNCHANGED <<isOverInteractive, sinceForceReset, helperCursor, onShortcut,
                   isDragMode, ignoreMouse, cursorPositionQ, overInteractiveQ,
                   realCursor>>
    /\ UNCHANGED sessionVars
    /\ UNCHANGED wiggleVars
    /\ UNCHANGED registryVars
    /\ UNCHANGED readerVars
    /\ UNCHANGED moduleVars
    /\ UNCHANGED rendererVars

\* ------------------------------------------------ CursorMonitor: poll tick
\* screen.getCursorScreenPoint(): the real position under X11; under Wayland
\* the query is not reliable and may give any point
NativeCursorPoints == IF isWayland THEN Points ELSE {realCursor}

\* getCursorPosition(), given what the native query would return
getCursorPosition(native) ==
    IF isWayland /\ helperReady THEN helperCursor ELSE native

\* a plausible slip: >= for >
forceResetDue_Inclusive(elapsed) == elapsed >= FORCE_RESET_INTERVAL

\* now - this.lastForceReset > this.FORCE_RESET_INTERVAL
forceResetDue(elapsed) == elapsed > FORCE_RESET_INTERVAL

\* now - lastForceReset at this tick, one poll interval after the last
Elapsed == Min(sinceForceReset + POLL_INTERVAL, FORCE_RESET_INTERVAL + POLL_INTERVAL)

\* checkCursor()
CheckCursor ==
    /\ intervalId
    /\ Len(cursorPositionQ) + Len(overInteractiveQ) < MaxQueue
    /\ \E native \in NativeCursorPoints :
        LET local == Local(getCursorPosition(native))
            tick == [NoEffect("checkCursor") EXCEPT !.sample = local]
        IN  /\ cursorPositionQ' = Append(cursorPositionQ, local)
            /\ IF isDragMode
               THEN /\ ignoreMouse' = FALSE
                    /\ sinceForceReset' = Elapsed
                    /\ effect' = [tick EXCEPT !.call = "capture"]
               ELSE IF isOverInteractive
               THEN IF forceResetDue(Elapsed)
                    THEN /\ ignoreMouse' = FALSE
                         /\ sinceForceReset' = 0
                         /\ effect' = [tick EXCEPT !.call = "capture"]
                    ELSE /\ UNCHANGED ignoreMouse
                         /\ sinceForceReset' = Elapsed
                         /\ effect' = tick
               ELSE /\ ignoreMouse' = TRUE
                    /\ sinceForceReset' = Elapsed
                    /\ effect' = [tick EXCEPT !.call = "ignore"]
    /\ UNCHANGED <<intervalId, isOverInteractive, helperProcess, helperReady,
                   helperCursor, onShortcut, isDragMode, appPhase,
                   overInteractiveQ, realCursor, helpers>>
    /\ UNCHANGED sessionVars
    /\ UNCHANGED wiggleVars
    /\ UNCHANGED registryVars
    /\ UNCHANGED readerVars
    /\ UNCHANGED characterVars
    /\ UNCHANGED rendererVars

\* ipcMain 'set-over-interactive' -> cursorMonitor.setOverInteractive(v)
SetOverInteractive ==
    /\ overInteractiveQ # <<>>
    /\ isOverInteractive' = Head(overInteractiveQ)
    /\ overInteractiveQ' = Tail(overInteractiveQ)
    /\ effect' = NoEffect("other")
    /\ UNCHANGED <<intervalId, sinceForceReset, helperProcess, helperReady,
                   helperCursor, onShortcut, isDragMode, appPhase, ignoreMouse,
                   cursorPositionQ, realCursor, helpers>>
    /\ UNCHANGED sessionVars
    /\ UNCHANGED wiggleVars
    /\ UNCHANGED registryVars
    /\ UNCHANGED readerVars
    /\ UNCHANGED characterVars
    /\ UNCHANGED rendererVars

\* ---------------------------------------- renderer: onCursorPosition handler
\* a plausible slip: the class is not removed when the element is not hovered
hoverClassAfter_Sticky(old, x, y, id, hid, dragging) ==
    IF isPointInRect(x, y, id, hid) /\ ~dragging THEN TRUE ELSE old

\* the manual-hover class of an element after the forEach body
hoverClassAfter(old, x, y, id, hid, dragging) ==
    IF isPointInRect(x, y, id, hid) /\ ~dragging THEN TRUE ELSE FALSE

\* anyInteractive at the end of the handler
anyInteractive(x, y, hid, dragging) ==
    \/ ~hid["settings-panel"]
    \/ \E i \in 1..Len(hoverElements) :
          IF isPointInRect(x, y, hoverElements[i], hid) /\ ~dragging
          THEN TRUE
          ELSE dragging

BoolName(b) == IF b THEN "true" ELSE "false"

OnCursorPosition ==
    /\ cursorPositionQ # <<>>
    /\ LET pos == Head(cursorPositionQ)
           any == anyInteractive(pos[1], pos[2], hidden, isDragging)
           handled == [NoEffect("onCursorPosition") EXCEPT !.sample = pos]
       IN  /\ manualHover' = [id \in HoverIds |->
                    hoverClassAfter(manualHover[id], pos[1], pos[2], id,
                                    hidden, isDragging)]
           /\ IF ~isDragging
              THEN /\ overInteractiveQ' = Append(overInteractiveQ, any)
                   /\ effect' = [handled EXCEPT !.reported = BoolName(any)]
              ELSE /\ UNCHANGED overInteractiveQ
                   /\ effect' = handled
    /\ cursorPositionQ' = Tail(cursorPositionQ)
    /\ UNCHANGED <<hidden, isDragging, appPhase, ignoreMouse, realCursor, helpers>>
    /\ UNCHANGED monitorVars
    /\ UNCHANGED sessionVars
    /\ UNCHANGED wiggleVars
    /\ UNCHANGED registryVars
    /\ UNCHANGED readerVars
    /\ UNCHANGED characterVars

\* ------------------------------------- CursorMonitor: lines from the helper
\* JSON.parse(line) followed by the read of event.type: does it throw?
ParseThrows(line) == line.kind \in {"garbage", "json_null"}

\* a plausible slip: a parse failure is taken for a dead helper
catchParseError_Resets ==
    /\ helperReady' = FALSE
    /\ helperCursor' = <<0, 0>>
    /\ UNCHANGED <<isDragMode, ignoreMouse>>

\* catch (err) { /* ignore parse errors */ }
catchParseError ==
    UNCHANGED <<helperReady, helperCursor, isDragMode, ignoreMouse>>

\* a plausible slip: the callback is called without looking at the name
firesShortcut_AnyName(name, callbackSet) == callbackSet

\* event.name && this.onShortcut
firesShortcut(name, callbackSet) == name # "" /\ callbackSet

\* a plausible slip: the window is told to ignore the mouse when drag mode
\* comes on, and to take it when drag mode goes off
ShortcutCallback_Inverted(name) ==
    CASE name = "toggle_chat" ->
            /\ ignoreMouse' = FALSE
            /\ UNCHANGED isDragMode
      [] name = "toggle_drag" ->
            /\ isDragMode' = ~isDragMode
            /\ ignoreMouse' = ~isDragMode
      [] OTHER -> UNCHANGED <<isDragMode, ignoreMouse>>

\* the shortcut callback installed by the application (toggle_chat,
\* toggle_drag; any other name falls through both branches)
ShortcutCallback(name) ==
    CASE name = "toggle_chat" ->
            \* activateChat(): win.setIgnoreMouseEvents(false)
            /\ ignoreMouse' = FALSE
            /\ UNCHANGED isDragMode
      [] name = "toggle_drag" ->
            \* isDragMode = !isDragMode; win.setIgnoreMouseEvents(!isDragMode)
            /\ isDragMode' = ~isDragMode
            /\ ignoreMouse' = isDragMode
      [] OTHER -> UNCHANGED <<isDragMode, ignoreMouse>>

\* handleHelperEvent(line)
handleHelperEvent(line) ==
    IF ParseThrows(line)
    THEN /\ catchParseError
         /\ effect' = NoEffect("parseError")
    ELSE CASE line.kind = "ready" ->
                /\ helperReady' = TRUE
                /\ UNCHANGED <<helperCursor, isDragMode, ignoreMouse>>
                /\ effect' = NoEffect("other")
           [] line.kind = "cursor" ->
                /\ helperCursor' = line.pos
                /\ UNCHANGED <<helperReady, isDragMode, ignoreMouse>>
                /\ effect' = NoEffect("other")
           [] line.kind = "shortcut" ->
                IF firesShortcut(line.name, onShortcut)
                THEN /\ ShortcutCallback(line.name)
                     /\ UNCHANGED <<helperReady, helperCursor>>
                     /\ effect' = NoEffect("onShortcut")
                ELSE /\ UNCHANGED <<helperReady, helperCursor, isDragMode, ignoreMouse>>
                     /\ effect' = NoEffect("other")
           [] OTHER ->
                \* click, heartbeat, error, a cursor event lacking a
                \* coordinate, an unknown type
                /\ UNCHANGED <<helperReady, helperCursor, isDragMode, ignoreMouse>>
                /\ effect' = NoEffect("other")

\* rl.on('line'): a line read from the pipe of child h
HelperLine(h, line) ==
    /\ helpers[h].pipe
    /\ handleHelperEvent(line)
    /\ UNCHANGED <<intervalId, isOverInteractive, sinceForceReset, helperProcess,
                   onShortcut, appPhase, cursorPositionQ, overInteractiveQ,
                   realCursor, helpers>>
    /\ UNCHANGED sessionVars
    /\ UNCHANGED wiggleVars
    /\ UNCHANGED registryVars
    /\ UNCHANGED readerVars
    /\ UNCHANGED characterVars
    /\ UNCHANGED rendererVars

\* helperProcess.on('exit') and .on('error'): the same body
ChildEvent(h) ==
    /\ helpers[h].pending # "none"
    /\ helpers' = [helpers EXCEPT ![h].pending = "none"]
    /\ helperProcess' = 0
    /\ helperReady' = FALSE
    /\ effect' = NoEffect("other")
    /\ UNCHANGED <<intervalId, isOverInteractive, sinceForceReset, helperCursor,
                   onShortcut, isDragMode, appPhase, ignoreMouse,
                   cursorPositionQ, overInteractiveQ, realCursor>>
    /\ UNCHANGED sessionVars
    /\ UNCHANGED wiggleVars
    /\ UNCHANGED registryVars
    /\ UNCHANGED readerVars
    /\ UNCHANGED characterVars
    /\ UNCHANGED rendererVars

\* ------------------------------------ CursorMonitor: bounds-tracking variant
\* win.getBounds(): the size of the window
windowSize == <<2, 0>>

\* the bounds check of checkCursor
inBounds(p) ==
    /\ p[1] >= bounds[1]
    /\ p[1] <= bounds[1] + windowSize[1]
    /\ p[2] >= bounds[2]
    /\ p[2] <= bounds[2] + windowSize[2]

\* the payload of 'cursor-bounds-changed'
BoundsName(b) == IF b THEN "entered" ELSE "left"

\* the frame of the steps of the bounds-tracking monitor
boundsFrame == <<intervalId, activeTimers, isOverInteractive, sinceForceReset,
                 helperProcess, helperReady, helperCursor, onShortcut,
                 isDragMode, appPhase, cursorPositionQ, overInteractiveQ,
                 realCursor, helpers, sessionVars, wiggleVars, registryVars,
                 readerVars, rendererVars, counted, wiggleHistory, lastMouseX,
                 jump, jumpBubbleTimer, opacity, currentState, evasions,
                 monitorSize, chatVars, requests, screensaverVars>>

\* checkCursor() of the bounds-tracking monitor, on a tick of the timer:
\* 'cursor-bounds-changed' is sent when the value differs from the one
\* remembered, 'cursor-position' while the cursor is in the window
checkCursorBounds ==
    /\ intervalId
    /\ LET now == inBounds(realCursor)
           tick == [NoEffect("checkCursorBounds") EXCEPT
                       !.sample = IF now THEN Local(realCursor) ELSE <<0, 0>>,
                       !.reported = BoolName(now)]
       IN  IF now # lastCursorInBounds
           THEN /\ lastCursorInBounds' = now
                /\ lastSent' = BoundsName(now)
                /\ effect' = [tick EXCEPT !.call = BoundsName(now)]
           ELSE /\ UNCHANGED <<lastCursorInBounds, lastSent>>
                /\ effect' = tick
    /\ UNCHANGED ignoreMouse
    /\ UNCHANGED boundsFrame

\* forceInteractive()
forceInteractive ==
    /\ ignoreMouse' = FALSE
    /\ lastCursorInBounds' = TRUE
    /\ effect' = NoEffect("forceInteractive")
    /\ UNCHANGED lastSent
    /\ UNCHANGED boundsFrame

\* ------------------------------------------------- environment: the helper
\* the child terminates (on its own, or on the signal it was sent)
HelperExit(h) ==
    /\ helpers[h].st = "running"
    /\ helpers' = [helpers EXCEPT ![h].st = "dead", ![h].pending = "exit"]
    /\ effect' = NoEffect("other")
    /\ UNCHANGED <<appPhase, ignoreMouse, cursorPositionQ, overInteractiveQ,
                   realCursor>>
    /\ UNCHANGED monitorVars
    /\ UNCHANGED sessionVars
    /\ UNCHANGED wiggleVars
    /\ UNCHANGED registryVars
    /\ UNCHANGED readerVars
    /\ UNCHANGED characterVars
    /\ UNCHANGED rendererVars

\* the pipe of a terminated child has been read to its end
PipeClose(h) ==
    /\ helpers[h].st = "dead"
    /\ helpers[h].pipe
    /\ helpers' = [helpers EXCEPT ![h].pipe = FALSE]
    /\ effect' = NoEffect("other")
    /\ UNCHANGED <<appPhase, ignoreMouse, cursorPositionQ, overInteractiveQ,
                   realCursor>>
    /\ UNCHANGED monitorVars
    /\ UNCHANGED sessionVars
    /\ UNCHANGED wiggleVars
    /\ UNCHANGED registryVars
    /\ UNCHANGED readerVars
    /\ UNCHANGED characterVars
    /\ UNCHANGED rendererVars

\* ------------------------------------------------- environment: the user
MoveCursor(p) ==
    /\ p # realCursor
    /\ realCursor' = p
    /\ effect' = NoEffect("other")
    /\ UNCHANGED <<appPhase, ignoreMouse, cursorPositionQ, overInteractiveQ, helpers>>
    /\ UNCHANGED monitorVars
    /\ UNCHANGED sessionVars
    /\ UNCHANGED wiggleVars
    /\ UNCHANGED registryVars
    /\ UNCHANGED readerVars
    /\ UNCHANGED characterVars
    /\ UNCHANGED rendererVars

\* the window takes pointer input and the pointer is over the element
PointerOver(id) ==
    /\ ~ignoreMouse
    /\ LET l == Local(realCursor) IN InRect(l[1], l[2], id)

\* 'pointerdown' on the character container: startDrag(e)
startDrag ==
    /\ PointerOver("character-container")
    /\ ~PointerOver("backpack")
    /\ ~isDragging
    /\ isDragging' = TRUE
    /\ effect' = NoEffect("other")
    /\ UNCHANGED <<hidden, manualHover, appPhase, ignoreMouse, cursorPositionQ,
                   overInteractiveQ, realCursor, helpers>>
    /\ UNCHANGED monitorVars
    /\ UNCHANGED sessionVars
    /\ UNCHANGED wiggleVars
    /\ UNCHANGED registryVars
    /\ UNCHANGED readerVars
    /\ UNCHANGED characterVars

\* 'pointerup' / 'lostpointercapture' on the character container
endDrag ==
    /\ isDragging
    /\ isDragging' = FALSE
    /\ effect' = NoEffect("other")
    /\ UNCHANGED <<hidden, manualHover, appPhase, ignoreMouse, cursorPositionQ,
                   overInteractiveQ, realCursor, helpers>>
    /\ UNCHANGED monitorVars
    /\ UNCHANGED sessionVars
    /\ UNCHANGED wiggleVars
    /\ UNCHANGED registryVars
    /\ UNCHANGED readerVars
    /\ UNCHANGED characterVars

\* openSettings(): from the tray at any time, or by a click on the backpack
openSettings ==
    /\ hidden["settings-panel"]
    /\ hidden' = [hidden EXCEPT !["settings-panel"] = FALSE]
    /\ effect' = NoEffect("other")
    /\ UNCHANGED <<manualHover, isDragging, appPhase, ignoreMouse,
                   cursorPositionQ, overInteractiveQ, realCursor, helpers>>
    /\ UNCHANGED monitorVars
    /\ UNCHANGED sessionVars
    /\ UNCHANGED wiggleVars
    /\ UNCHANGED registryVars
    /\ UNCHANGED readerVars
    /\ UNCHANGED characterVars

\* closeSettings(): a click the panel receives
closeSettings ==
    /\ ~hidden["settings-panel"]
    /\ ~ignoreMouse
    /\ hidden' = [hidden EXCEPT !["settings-panel"] = TRUE]
    /\ effect' = NoEffect("other")
    /\ UNCHANGED <<manualHover, isDragging, appPhase, ignoreMouse,
                   cursorPositionQ, overInteractiveQ, realCursor, helpers>>
    /\ UNCHANGED monitorVars
    /\ UNCHANGED sessionVars
    /\ UNCHANGED wiggleVars
    /\ UNCHANGED registryVars
    /\ UNCHANGED readerVars
    /\ UNCHANGED characterVars

\* showSpeechBubble() / hideSpeechBubble()
setBubbleHidden(v) ==
    /\ hidden["speech-bubble"] # v
    /\ hidden' = [hidden EXCEPT !["speech-bubble"] = v]
    /\ effect' = NoEffect("other")
    /\ UNCHANGED <<manualHover, isDragging, appPhase, ignoreMouse,
                   cursorPositionQ, overInteractiveQ, realCursor, helpers>>
    /\ UNCHANGED monitorVars
    /\ UNCHANGED sessionVars
    /\ UNCHANGED wiggleVars
    /\ UNCHANGED registryVars
    /\ UNCHANGED readerVars
    /\ UNCHANGED characterVars

\* ------------------------------ renderer (Tauri build): wiggle and evasion
Abs(n) == IF n < 0 THEN -n ELSE n

\* a plausible slip: the history is let grow one entry past its size
historyOverflows_Late(len) == len > WIGGLE_HISTORY_SIZE + 1

\* cursorHistory.length > WIGGLE_HISTORY_SIZE
historyOverflows(len) == len > WIGGLE_HISTORY_SIZE

\* the history after the push and the filter by age, gap ms having passed
recentHistory(history, x, gap) ==
    LET aged == [i \in 1..Len(history) |->
                    [x |-> history[i].x, age |-> history[i].age + gap]]
        pushed == Append(aged, [x |-> x, age |-> 0])
    IN  SelectSeq(pushed, LAMBDA p : p.age < WIGGLE_TIME_WINDOW)

\* the history the listener leaves: push, filter, shift of one entry
trackHistory(history, x, gap) ==
    LET recent == recentHistory(history, x, gap)
    IN  IF historyOverflows(Len(recent)) THEN Tail(recent) ELSE recent

\* a plausible slip: a move of exactly five pixels is taken for a jitter
isJitter_Inclusive(deltaX) == Abs(deltaX) <= 5

\* Math.abs(deltaX) < 5: "Ignore tiny jitters"
isJitter(deltaX) == Abs(deltaX) < 5

\* the loop of checkWiggleAndEvade from index i on, lastDirX being the
\* direction of the last move that was not a jitter
RECURSIVE countChanges(_, _, _)
countChanges(history, i, lastDirX) ==
    IF i > Len(history) THEN 0
    ELSE LET deltaX == history[i].x - history[i - 1].x
         IN  IF isJitter(deltaX) THEN countChanges(history, i + 1, lastDirX)
             ELSE LET currentDirX == IF deltaX > 0 THEN 1 ELSE -1
                  IN  (IF lastDirX # 0 /\ currentDirX # lastDirX THEN 1 ELSE 0)
                      + countChanges(history, i + 1, currentDirX)

directionChanges(history) == countChanges(history, 2, 0)

\* a plausible slip: one reversal fewer is enough
wiggleDetected_OneFewer(changes) == changes >= WIGGLE_THRESHOLD - 1

\* directionChanges >= WIGGLE_THRESHOLD
wiggleDetected(changes) == changes >= WIGGLE_THRESHOLD

\* distance > PROXIMITY_THRESHOLD, the distance being that of the point to
\* the centre of the window (compared squared: all values are integers)
tooFar(x, y, pos) ==
    LET dx == x - (pos[1] + WindowSize[1] \div 2)
        dy == y - (pos[2] + WindowSize[2] \div 2)
    IN  dx * dx + dy * dy > PROXIMITY_THRESHOLD * PROXIMITY_THRESHOLD

\* the guards of checkWiggleAndEvade that run before its first await
evasionAllowed(since) ==
    /\ ~(since < EVASION_COOLDOWN)
    /\ ~isWindowLocked
    /\ ~screensaverMode
    /\ ~dragModeActive

\* the frame of the steps of the Tauri renderer
electronVars == <<monitorVars, sessionVars, appPhase, ignoreMouse, manualHover,
                  cursorPositionQ, overInteractiveQ, realCursor, helpers,
                  activeTimers>>

\* the 'cursor-pos' listener, gap ms after the previous event: the cursor is
\* where it was ("still": it moved along the column) or on the other column.
\* The call of checkWiggleAndEvade runs up to its first await.
CursorPos(move, gap) ==
    /\ move = "still" => ~oscillating \/ gap >= WIGGLE_TIME_WINDOW
    /\ LET last == IF cursorHistory = <<>> THEN RestX
                   ELSE cursorHistory[Len(cursorHistory)].x
           x == IF move = "still" THEN last
                ELSE CHOOSE c \in CursorXs : c # last
           since == Min(sinceEvasion + gap, EVASION_COOLDOWN)
           history == trackHistory(cursorHistory, x, gap)
           checks == Len(history) > 10 /\ evasionAllowed(since)
       IN  /\ checks => Len(pendingChecks) < MaxPending
           /\ cursorHistory' = history
           /\ sinceEvasion' = since
           /\ pendingChecks' = IF checks
                               THEN Append(pendingChecks, <<x, CursorY>>)
                               ELSE pendingChecks
           /\ effect' = [NoEffect("cursorPos") EXCEPT
                            !.call = IF Len(history)
                                        < Len(recentHistory(cursorHistory, x, gap))
                                     THEN "shift" ELSE "none"]
    /\ oscillating' = IF gap >= WIGGLE_TIME_WINDOW THEN move = "reverse"
                      ELSE oscillating \/ move = "reverse"
    /\ teleport' = IF teleport = "waiting" /\ gap >= TELEPORT_DELAY
                   THEN "due" ELSE teleport
    /\ UNCHANGED <<windowPos, isWindowLocked, screensaverMode, dragModeActive>>
    /\ UNCHANGED rendererVars
    /\ UNCHANGED electronVars
    /\ UNCHANGED registryVars
    /\ UNCHANGED readerVars
    /\ UNCHANGED characterVars

\* performEvasion() up to the start of its timer; monitor is what
\* currentMonitor() resolved to (FALSE: null)
performEvasion(monitor) ==
    /\ sinceEvasion' = 0
    /\ hidden' = [hidden EXCEPT !["speech-bubble"] = FALSE]
    /\ teleport' = IF monitor /\ teleport = "none" THEN "waiting" ELSE teleport
    /\ effect' = NoEffect("performEvasion")

\* the rest of the i-th pending checkWiggleAndEvade, once the position and
\* the size of the window have resolved
ResolveCheck(i, monitor) ==
    /\ i \in 1..Len(pendingChecks)
    /\ pendingChecks' = SubSeq(pendingChecks, 1, i - 1)
                        \o SubSeq(pendingChecks, i + 1, Len(pendingChecks))
    /\ LET current == pendingChecks[i]
       IN  IF ~tooFar(current[1], current[2], windowPos)
              /\ wiggleDetected(directionChanges(cursorHistory))
           THEN performEvasion(monitor)
           ELSE /\ ~monitor
                /\ effect' = NoEffect("checkWiggle")
                /\ UNCHANGED <<sinceEvasion, hidden, teleport>>
    /\ UNCHANGED <<cursorHistory, windowPos, isWindowLocked, screensaverMode,
                   dragModeActive, oscillating, manualHover, isDragging>>
    /\ UNCHANGED electronVars
    /\ UNCHANGED registryVars
    /\ UNCHANGED readerVars
    /\ UNCHANGED characterVars

\* the timer of performEvasion: the window is put at a random place, and the
\* fade-in and the hiding of the bubble that follow are taken with it
Teleport(pos) ==
    /\ teleport = "due"
    /\ teleport' = "none"
    /\ windowPos' = pos
    /\ hidden' = [hidden EXCEPT !["speech-bubble"] = TRUE]
    /\ effect' = NoEffect("teleport")
    /\ UNCHANGED <<cursorHistory, sinceEvasion, pendingChecks, isWindowLocked,
                   screensaverMode, dragModeActive, oscillating, manualHover,
                   isDragging>>
    /\ UNCHANGED electronVars
    /\ UNCHANGED registryVars
    /\ UNCHANGED readerVars
    /\ UNCHANGED characterVars

\* lockWindow() / unlockWindow() of the chat: a message is being answered
setWindowLocked(v) ==
    /\ isWindowLocked # v
    /\ isWindowLocked' = v
    /\ effect' = NoEffect("other")
    /\ UNCHANGED <<cursorHistory, sinceEvasion, pendingChecks, windowPos,
                   teleport, screensaverMode, dragModeActive, oscillating>>
    /\ UNCHANGED rendererVars
    /\ UNCHANGED electronVars
    /\ UNCHANGED registryVars
    /\ UNCHANGED readerVars
    /\ UNCHANGED characterVars

\* startScreensaver() / stopScreensaver(): the body class 'screensaver-mode'
setScreensaverMode(v) ==
    /\ screensaverMode # v
    /\ screensaverMode' = v
    /\ effect' = NoEffect("other")
    /\ UNCHANGED <<cursorHistory, sinceEvasion, pendingChecks, windowPos,
                   teleport, isWindowLocked, dragModeActive, oscillating>>
    /\ UNCHANGED rendererVars
    /\ UNCHANGED electronVars
    /\ UNCHANGED registryVars
    /\ UNCHANGED readerVars
    /\ UNCHANGED characterVars

\* toggleDragMode(): the body class 'drag-mode-active'
toggleDragMode ==
    /\ dragModeActive' = ~dragModeActive
    /\ effect' = NoEffect("other")
    /\ UNCHANGED <<cursorHistory, sinceEvasion, pendingChecks, windowPos,
                   teleport, isWindowLocked, screensaverMode, oscillating>>
    /\ UNCHANGED rendererVars
    /\ UNCHANGED electronVars
    /\ UNCHANGED registryVars
    /\ UNCHANGED readerVars
    /\ UNCHANGED characterVars

\* ----------------------------- renderer (Tauri build): global shortcuts
\* update*Shortcut(newShortcut) up to its first await
startUpdate(f, newShortcut) ==
    IF currentShortcut[f] = newShortcut THEN Idle
    ELSE IF currentShortcut[f] # 0
    THEN [stage |-> "unregister", newShortcut |-> newShortcut]
    ELSE [stage |-> "register", newShortcut |-> newShortcut]

\* applyConfig(cfg): the four updaters are called one after the other, none
\* is awaited
applyConfig(cfg) ==
    /\ \A f \in Features : updating[f] = Idle
    /\ config' = cfg
    /\ updating' = [f \in Features |-> startUpdate(f, cfg[f])]
    /\ effect' = NoEffect("applyConfig")
    /\ UNCHANGED <<currentShortcut, registered>>
    /\ UNCHANGED wiggleVars
    /\ UNCHANGED rendererVars
    /\ UNCHANGED electronVars
    /\ UNCHANGED readerVars
    /\ UNCHANGED characterVars

\* await unregister(current*Shortcut) resolves or rejects (the rejection is
\* caught): the chord is no longer in the registry, whoever had put it there
Unregister(f) ==
    /\ updating[f].stage = "unregister"
    /\ registered' = [registered EXCEPT ![currentShortcut[f]] = "none"]
    /\ updating' = [updating EXCEPT ![f].stage = "register"]
    /\ effect' = [NoEffect("unregister") EXCEPT !.reported = f]
    /\ UNCHANGED <<config, currentShortcut>>
    /\ UNCHANGED wiggleVars
    /\ UNCHANGED rendererVars
    /\ UNCHANGED electronVars
    /\ UNCHANGED readerVars
    /\ UNCHANGED characterVars

\* register(newShortcut, handler) rejects
registerFails(chord) == chord \in Unavailable \/ registered[chord] # "none"

\* await register(newShortcut, handler) resolves, or rejects and is caught
Register(f) ==
    /\ updating[f].stage = "register"
    /\ LET newShortcut == updating[f].newShortcut
       IN  IF registerFails(newShortcut)
           THEN /\ effect' = [NoEffect("registerFailed") EXCEPT !.reported = f]
                /\ UNCHANGED <<currentShortcut, registered>>
           ELSE /\ registered' = [registered EXCEPT ![newShortcut] = f]
                /\ currentShortcut' = [currentShortcut EXCEPT ![f] = newShortcut]
                /\ effect' = [NoEffect("register") EXCEPT !.reported = f]
    /\ updating' = [updating EXCEPT ![f] = Idle]
    /\ UNCHANGED config
    /\ UNCHANGED wiggleVars
    /\ UNCHANGED rendererVars
    /\ UNCHANGED electronVars
    /\ UNCHANGED readerVars
    /\ UNCHANGED characterVars

\* ------------- renderer (Tauri build): shortcut updates that overlap
\* the frame of the steps of the shortcut updaters when their calls overlap
overlapFrame == <<wiggleVars, rendererVars, electronVars, readerVars,
                  updating, counted, wiggleHistory, lastMouseX, jump,
                  jumpBubbleTimer, opacity, currentState, evasions,
                  monitorSize, chatVars, boundsVars, screensaverVars>>

\* update*Shortcut(newShortcut) up to its first await: the IPC call it sends
firstRequest(f, newShortcut) ==
    IF currentShortcut[f] = newShortcut THEN <<>>
    ELSE IF currentShortcut[f] # 0
    THEN <<[f |-> f, op |-> "unregister", chord |-> currentShortcut[f],
            newShortcut |-> newShortcut]>>
    ELSE <<[f |-> f, op |-> "register", chord |-> newShortcut,
            newShortcut |-> newShortcut]>>

\* saveSettings() after save_config has resolved, and the applyConfig(cfg)
\* it calls: the four updaters are called one after the other, none is
\* awaited, whatever earlier calls still await
saveSettings(cfg) ==
    /\ Len(requests) < MaxCalls
    /\ config' = cfg
    /\ requests' = requests \o firstRequest("chat", cfg["chat"])
                            \o firstRequest("drag", cfg["drag"])
                            \o firstRequest("visibility", cfg["visibility"])
                            \o firstRequest("screensaver", cfg["screensaver"])
    /\ effect' = NoEffect("applyConfig")
    /\ UNCHANGED <<currentShortcut, registered>>
    /\ UNCHANGED overlapFrame

\* the oldest call is unregister(chord): it resolves or rejects (the
\* rejection is caught) and the updater goes on to call register
UnregisterAnswered ==
    /\ requests # <<>>
    /\ Head(requests).op = "unregister"
    /\ LET r == Head(requests)
       IN  /\ registered' = [registered EXCEPT ![r.chord] = "none"]
           /\ requests' = Append(Tail(requests),
                                 [r EXCEPT !.op = "register",
                                           !.chord = r.newShortcut])
           /\ effect' = [NoEffect("unregister") EXCEPT !.reported = r.f]
    /\ UNCHANGED <<config, currentShortcut>>
    /\ UNCHANGED overlapFrame

\* the oldest call is register(newShortcut, handler): it resolves and the
\* updater remembers the chord, or it rejects and the rejection is caught
RegisterAnswered ==
    /\ requests # <<>>
    /\ Head(requests).op = "register"
    /\ LET r == Head(requests)
       IN  IF registerFails(r.chord)
           THEN /\ effect' = [NoEffect("registerFailed") EXCEPT !.reported = r.f]
                /\ UNCHANGED <<currentShortcut, registered>>
           ELSE /\ registered' = [registered EXCEPT ![r.chord] = r.f]
                /\ currentShortcut' = [currentShortcut EXCEPT ![r.f] = r.chord]
                /\ effect' = [NoEffect("register") EXCEPT !.reported = r.f]
    /\ requests' = Tail(requests)
    /\ UNCHANGED config
    /\ UNCHANGED overlapFrame

\* --------------------------- renderer (Tauri build): screensaver module
\* the frame of the steps of the screensaver module
screensaverFrame == <<cursorHistory, sinceEvasion, pendingChecks, windowPos,
                      teleport, isWindowLocked, dragModeActive, oscillating,
                      manualHover, isDragging, electronVars, registryVars,
                      readerVars, counted, wiggleHistory, lastMouseX, jump,
                      jumpBubbleTimer, evasions, monitorSize, clickTimers,
                      bubbleTimeout, requests, boundsVars>>

\* startScreensaver / stopScreensaver calls that have not returned
saverInFlight ==
    saverCalls["saving"] + saverCalls["resizing"] + saverCalls["fullscreen"]
    + saverCalls["fadeOut"] + saverCalls["windowing"]

\* all the calls made so far
saverTotal ==
    saverInFlight + saverCalls["started"] + saverCalls["stopped"]
    + saverCalls["failed"]

\* a call goes on from one await to the next, or ends
saverAdvance(from, to) ==
    /\ saverCalls[from] > 0
    /\ saverCalls' = [saverCalls EXCEPT ![from] = @ - 1, ![to] = @ + 1]

\* toggleScreensaver(), from the shortcut: stopScreensaver() up to its first
\* await when the flag is set, else startScreensaver() up to its first await
toggleScreensaver ==
    /\ saverTotal < MaxToggles
    /\ IF isScreensaverActive
       THEN /\ isScreensaverActive' = FALSE
            /\ opacity' = 0
            /\ saverCalls' = [saverCalls EXCEPT !["fadeOut"] = @ + 1]
            /\ effect' = NoEffect("stopScreensaver")
       ELSE /\ isScreensaverActive' = TRUE
            /\ UNCHANGED opacity
            /\ saverCalls' = [saverCalls EXCEPT !["saving"] = @ + 1]
            /\ effect' = NoEffect("startScreensaver")
    /\ UNCHANGED <<screensaverMode, fullscreen, hidden, currentState,
                   chatInputHidden, idleTimeout>>
    /\ UNCHANGED screensaverFrame

\* startScreensaver: outerPosition() and outerSize() have resolved; the
\* character is reset and the body fades out
StartSaved ==
    /\ saverAdvance("saving", "resizing")
    /\ currentState' = "idle"
    /\ hidden' = [hidden EXCEPT !["speech-bubble"] = TRUE]
    /\ chatInputHidden' = TRUE
    /\ idleTimeout' = FALSE
    /\ opacity' = 0
    /\ effect' = NoEffect("startScreensaver")
    /\ UNCHANGED <<isScreensaverActive, screensaverMode, fullscreen>>
    /\ UNCHANGED screensaverFrame

\* startScreensaver: the fade, setResizable, currentMonitor, setSize and
\* setPosition have resolved; the body is marked and setFullscreen(true) is
\* called
StartResized ==
    /\ saverAdvance("resizing", "fullscreen")
    /\ screensaverMode' = TRUE
    /\ effect' = NoEffect("startScreensaver")
    /\ UNCHANGED <<isScreensaverActive, fullscreen, opacity, hidden,
                   currentState, chatInputHidden, idleTimeout>>
    /\ UNCHANGED screensaverFrame

\* startScreensaver: setFullscreen(true) and setIgnoreCursorEvents(false)
\* have resolved; the body fades in and the call returns (its bubble is
\* shown for 2 s and hidden again)
StartFullscreen ==
    /\ saverAdvance("fullscreen", "started")
    /\ fullscreen' = TRUE
    /\ opacity' = 1
    /\ effect' = NoEffect("startScreensaver")
    /\ UNCHANGED <<isScreensaverActive, screensaverMode, hidden, currentState,
                   chatInputHidden, idleTimeout>>
    /\ UNCHANGED screensaverFrame

\* startScreensaver: one of the awaited window calls rejects (catch)
StartFailed(stage) ==
    /\ saverAdvance(stage, "failed")
    /\ isScreensaverActive' = FALSE
    /\ opacity' = 1
    /\ effect' = NoEffect("startFailed")
    /\ UNCHANGED <<screensaverMode, fullscreen, hidden, currentState,
                   chatInputHidden, idleTimeout>>
    /\ UNCHANGED screensaverFrame

\* stopScreensaver: the 200 ms of the fade have passed; the mark is taken
\* off the body and setFullscreen(false) is called
StopFaded ==
    /\ saverAdvance("fadeOut", "windowing")
    /\ screensaverMode' = FALSE
    /\ effect' = NoEffect("stopScreensaver")
    /\ UNCHANGED <<isScreensaverActive, fullscreen, opacity, hidden,
                   currentState, chatInputHidden, idleTimeout>>
    /\ UNCHANGED screensaverFrame

\* stopScreensaver: setFullscreen(false) and the calls that restore the
\* window have resolved; the body fades in and the call returns
StopWindowed ==
    /\ saverAdvance("windowing", "stopped")
    /\ fullscreen' = FALSE
    /\ opacity' = 1
    /\ effect' = NoEffect("stopScreensaver")
    /\ UNCHANGED <<isScreensaverActive, screensaverMode, hidden, currentState,
                   chatInputHidden, idleTimeout>>
    /\ UNCHANGED screensaverFrame

\* ------------------------------------------- input helper (Device Reader)
\* a plausible slip: only the lower bound is enforced
clamp_NoUpper(v, lo, hi) == IF v < lo THEN lo ELSE v

\* v clamped to lo..hi
clamp(v, lo, hi) == IF v < lo THEN lo ELSE IF v > hi THEN hi ELSE v

\* the frame of the steps of the helper process
helperFrame == <<monitorVars, sessionVars, rendererVars, wiggleVars,
                 registryVars, characterVars, appPhase, ignoreMouse, cursorPositionQ,
                 overInteractiveQ, realCursor, helpers>>

\* a plausible slip: events of any open device are taken for those of the class
hasOpen_Any(kind) == \E d \in DeviceIds : devices[d] # "none"

\* a device of the class is open: only such a device delivers its events
hasOpen(kind) == \E d \in DeviceIds : devices[d] = kind

\* a relative motion event of a pointer on one axis: the delta is added to
\* the coordinate, the sum is clamped to the screen, a Cursor event is written
RelMotion(axis, delta) ==
    /\ exitStatus = Running
    /\ hasOpen("pointer")
    /\ cursor' = IF axis = "x"
                 THEN <<clamp(cursor[1] + delta, 0, ScreenWidth), cursor[2]>>
                 ELSE <<cursor[1], clamp(cursor[2] + delta, 0, ScreenHeight)>>
    /\ emitted' = <<[type |-> "cursor", pos |-> cursor']>>
    /\ effect' = NoEffect("relMotion")
    /\ UNCHANGED <<modifiers, devices, ready, exitStatus, lastKey>>
    /\ UNCHANGED helperFrame

\* a plausible slip: a second press of a held modifier clears its bit
setBit_Toggles(held, key) ==
    IF key \in held THEN held \ {key} ELSE held \cup {key}

\* a press sets the bit of the modifier
setBit(held, key) == held \cup {key}

\* a plausible slip: a spec fires when its modifiers are among those held
matches_Superset(required, held) == required \subseteq held

\* exact-set comparison of the modifiers a spec requires with those held
matches(required, held) == required = held

\* the Shortcut events a press of a trigger key writes, in table order
shortcutsFor(key, held) ==
    LET hits == SelectSeq(ShortcutSpec,
                          LAMBDA s : s.key = key /\ matches(s.modifiers, held))
    IN  [i \in 1..Len(hits) |-> [type |-> "shortcut", name |-> hits[i].name]]

\* a key press: a modifier is added to the set, a trigger key is matched
\* against the table
KeyPress(key) ==
    /\ exitStatus = Running
    /\ hasOpen("keyboard")
    /\ IF key \in ModifierKeys
       THEN /\ modifiers' = setBit(modifiers, key)
            /\ lastKey' = [lastKey EXCEPT ![key] = "press"]
            /\ emitted' = <<>>
       ELSE /\ emitted' = shortcutsFor(key, modifiers)
            /\ UNCHANGED <<modifiers, lastKey>>
    /\ effect' = [NoEffect("keyPress") EXCEPT !.call = key]
    /\ UNCHANGED <<cursor, devices, ready, exitStatus>>
    /\ UNCHANGED helperFrame

\* the release of a modifier key, held or not (it may have been pressed
\* before the helper started)
KeyRelease(key) ==
    /\ exitStatus = Running
    /\ hasOpen("keyboard")
    /\ modifiers' = modifiers \ {key}
    /\ lastKey' = [lastKey EXCEPT ![key] = "release"]
    /\ emitted' = <<>>
    /\ effect' = NoEffect("keyRelease")
    /\ UNCHANGED <<cursor, devices, ready, exitStatus>>
    /\ UNCHANGED helperFrame

\* a plausible slip: an error on one device closes them all
closeDevice_All(devs, d) == [x \in DeviceIds |-> "none"]

\* the devices left open when device d is closed
closeDevice(devs, d) == [devs EXCEPT ![d] = "none"]

\* a read error on device d: the device is closed and an Error event is
\* written, informational while another device is open, fatal when none is
ReadError(d) ==
    /\ exitStatus = Running
    /\ devices[d] # "none"
    /\ devices' = closeDevice(devices, d)
    /\ emitted' = <<[type |-> "error",
                     fatal |-> \A x \in DeviceIds : devices'[x] = "none"]>>
    /\ effect' = NoEffect("readError")
    /\ UNCHANGED <<cursor, modifiers, ready, exitStatus, lastKey>>
    /\ UNCHANGED helperFrame

\* no device is left to wait on: the process exits with a non-zero status
ExitOnTotalLoss ==
    /\ exitStatus = Running
    /\ \A d \in DeviceIds : devices[d] = "none"
    /\ exitStatus' = 1
    /\ effect' = NoEffect("exit")
    /\ UNCHANGED <<cursor, modifiers, emitted, devices, ready, lastKey>>
    /\ UNCHANGED helperFrame

\* ------------------------------------------------------------------- Next
\* the arbitration pipeline, common to both sessions
Pipeline ==
    \/ AppReady
    \/ Quit
    \/ CheckCursor
    \/ OnCursorPosition
    \/ SetOverInteractive

\* X11 session: the user moves, drags, opens panels
Next ==
    \/ Pipeline
    \/ \E p \in Points : MoveCursor(p)
    \/ startDrag
    \/ endDrag
    \/ openSettings
    \/ closeSettings
    \/ \E v \in BOOLEAN : setBubbleHidden(v)

Spec == Init /\ [][Next]_vars

\* Wayland session: the helper lives, writes and dies
NextHelper ==
    \/ Pipeline
    \/ \E h \in HelperIds, line \in Lines : HelperLine(h, line)
    \/ \E h \in HelperIds : ChildEvent(h)
    \/ \E h \in HelperIds : HelperExit(h)
    \/ \E h \in HelperIds : PipeClose(h)

SpecHelper == InitHelper /\ [][NextHelper]_vars

\* Wayland session: the monitor is started and stopped any number of times
\* while its helpers live, write and die
NextLifecycle ==
    \/ StartCall
    \/ StopCall
    \/ \E h \in HelperIds, line \in Lines : HelperLine(h, line)
    \/ \E h \in HelperIds : ChildEvent(h)
    \/ \E h \in HelperIds : HelperExit(h)
    \/ \E h \in HelperIds : PipeClose(h)

SpecLifecycle == InitHelper /\ [][NextLifecycle]_vars

\* the bounds-tracking monitor: poll ticks, forceInteractive() calls, the
\* pointer moving in and out of the window
NextBounds ==
    \/ StartCall
    \/ StopCall
    \/ checkCursorBounds
    \/ forceInteractive
    \/ \E p \in Points : MoveCursor(p)

SpecBounds == Init /\ [][NextBounds]_vars

\* Wayland session: the helper reports shortcuts
NextShortcut ==
    \/ Pipeline
    \/ \E h \in HelperIds, line \in ShortcutLines : HelperLine(h, line)
    \/ \E h \in HelperIds : ChildEvent(h)
    \/ \E h \in HelperIds : HelperExit(h)
    \/ \E h \in HelperIds : PipeClose(h)

SpecShortcut == InitHelper /\ [][NextShortcut]_vars

\* the timer fires while it is set, and IPC messages are delivered
FairSpecHelper ==
    /\ SpecHelper
    /\ WF_vars(CheckCursor)
    /\ WF_vars(OnCursorPosition)
    /\ WF_vars(SetOverInteractive)

\* the same, the timer firing while it is set and IPC messages being delivered
FairSpecShortcut ==
    /\ SpecShortcut
    /\ WF_vars(CheckCursor)
    /\ WF_vars(OnCursorPosition)
    /\ WF_vars(SetOverInteractive)

\* Tauri build, the renderer loaded and nothing applied yet
\* the frame of a step of the Tauri renderer that touches neither the main
\* process, the registry of shortcuts nor the input helper
tauriFrame == <<electronVars, hidden, isDragging, registryVars, readerVars>>

\* step 2 of checkWiggleAndEvade taken alone: the loop over the history
\* that counts the direction changes
checkWiggle ==
    /\ counted = -1
    /\ counted' = directionChanges(cursorHistory)
    /\ effect' = NoEffect("directionChanges")
    /\ UNCHANGED wiggleVars
    /\ UNCHANGED <<wiggleHistory, lastMouseX, jump, jumpBubbleTimer, opacity,
                   currentState, evasions, monitorSize, chatVars, asyncVars>>
    /\ UNCHANGED tauriFrame

\* the histories the loop is run on: up to MaxSamples samples on columns
\* that are 1, 4, 5, 9 and 10 pixels apart
SampleXs == {240, 245, 249, 250}
Histories ==
    UNION {[1..n -> [x : SampleXs, age : {0}]] : n \in 0..MaxSamples}

InitCount ==
    /\ InitMain
    /\ ReaderStarted(OneOfEach)
    /\ isWayland = FALSE
    /\ helperAvailable = FALSE
    /\ realCursor = OverCharacter
    /\ cursorHistory \in Histories
    /\ counted = -1
    /\ CharacterRest

NextCount == checkWiggle

SpecCount == InitCount /\ [][NextCount]_vars

\* --------------------------------- interactions.ts: performEvasion step by step
\* padding, and the "box width approx 300"
EVASION_PADDING == 100
BOX_SIZE == 300

\* monitor.size of the monitors currentMonitor() may resolve to: smaller
\* than, as large as and larger than the box with its two paddings
Monitors == {<<350, 400>>, <<500, 1080>>, <<1920, 1080>>}

\* Math.random(): k / RandomSteps, k taken below RandomSteps
Randoms == 0..(RandomSteps - 1)

\* Math.round(n / d) for d > 0
Round(n, d) == (2 * n + d) \div (2 * d)

\* a plausible slip: the padding is not added to the random offset
evasionTarget_NoPadding(size, k) ==
    Round(k * ((size - BOX_SIZE - EVASION_PADDING) - EVASION_PADDING), RandomSteps)

\* Math.round(padding + Math.random() * (max - padding)) with
\* max = size - 300 - padding, on one axis
evasionTarget(size, k) ==
    LET max == size - BOX_SIZE - EVASION_PADDING
    IN  Round(EVASION_PADDING * RandomSteps + k * (max - EVASION_PADDING),
              RandomSteps)

\* a plausible slip: the catch block does not restore the opacity
opacityAfter_NoCatch(stage, ok, old) ==
    CASE stage = "monitor" /\ ok -> 0
      [] stage = "timer300" -> 1
      [] OTHER -> old

\* document.body.style.opacity after the step that leaves the stage: faded
\* out once the monitor is known, restored by the fade-in timer and by the
\* catch block of a failed setPosition
opacityAfter(stage, ok, old) ==
    CASE stage = "monitor" /\ ok -> 0
      [] stage = "moving" /\ ~ok -> 1
      [] stage = "timer300" -> 1
      [] OTHER -> old

\* the frame of a step of performEvasion
evasionFrame == <<cursorHistory, pendingChecks, teleport, isWindowLocked,
                  screensaverMode, dragModeActive, oscillating, counted,
                  wiggleHistory, lastMouseX, jump, jumpBubbleTimer, isDragging,
                  monitorSize, chatVars, asyncVars, electronVars, registryVars,
                  readerVars>>

\* the calls of performEvasion in flight
inFlight == evasions["monitor"] + evasions["timer250"] + evasions["moved"]
            + evasions["failed"] + evasions["timer300"] + evasions["timer2000"]

\* a call leaves a stage for another ("none": it returns)
advance(from, to) ==
    /\ evasions[from] > 0
    /\ evasions' = IF to = "none"
                   THEN [evasions EXCEPT ![from] = @ - 1]
                   ELSE [evasions EXCEPT ![from] = @ - 1, ![to] = @ + 1]

\* performEvasion() up to its await of currentMonitor()
EvasionCall ==
    /\ inFlight < MaxEvasions
    /\ sinceEvasion' = 0
    /\ currentState' = "clicked"
    /\ hidden' = [hidden EXCEPT !["speech-bubble"] = FALSE]
    /\ evasions' = [evasions EXCEPT !["monitor"] = @ + 1]
    /\ effect' = NoEffect("performEvasion")
    /\ UNCHANGED <<opacity, windowPos>>
    /\ UNCHANGED evasionFrame

\* currentMonitor() has resolved to null: return
NoMonitor ==
    /\ advance("monitor", "none")
    /\ opacity' = opacityAfter("monitor", FALSE, opacity)
    /\ effect' = NoEffect("other")
    /\ UNCHANGED <<sinceEvasion, currentState, hidden, windowPos>>
    /\ UNCHANGED evasionFrame

\* currentMonitor() has resolved to the monitor: 1. fade out, start the timer
FadeOut ==
    /\ advance("monitor", "timer250")
    /\ opacity' = opacityAfter("monitor", TRUE, opacity)
    /\ effect' = NoEffect("fadeOut")
    /\ UNCHANGED <<sinceEvasion, currentState, hidden, windowPos>>
    /\ UNCHANGED evasionFrame

\* the 250 ms timer: 2. the position is chosen and setPosition is called;
\* the window is moved if the call is to succeed
EvasionTimer(kx, ky, ok) ==
    LET target == <<evasionTarget(monitorSize[1], kx),
                    evasionTarget(monitorSize[2], ky)>>
    IN  /\ advance("timer250", IF ok THEN "moved" ELSE "failed")
        /\ windowPos' = IF ok THEN target ELSE windowPos
        /\ effect' = [NoEffect("setPosition") EXCEPT !.sample = target]
        /\ UNCHANGED <<opacity, sinceEvasion, currentState, hidden>>
        /\ UNCHANGED evasionFrame

\* setPosition has resolved: the fade-in timer is started
PositionSet ==
    /\ advance("moved", "timer300")
    /\ opacity' = opacityAfter("moving", TRUE, opacity)
    /\ effect' = NoEffect("other")
    /\ UNCHANGED <<sinceEvasion, currentState, hidden, windowPos>>
    /\ UNCHANGED evasionFrame

\* setPosition has rejected: the catch block
TeleportFailed ==
    /\ advance("failed", "none")
    /\ opacity' = opacityAfter("moving", FALSE, opacity)
    /\ effect' = NoEffect("teleportFailed")
    /\ UNCHANGED <<sinceEvasion, currentState, hidden, windowPos>>
    /\ UNCHANGED evasionFrame

\* the 300 ms timer: 3. fade in, and the timer of the bubble is started
FadeIn ==
    /\ advance("timer300", "timer2000")
    /\ opacity' = opacityAfter("timer300", TRUE, opacity)
    /\ currentState' = "idle"
    /\ effect' = NoEffect("fadeIn")
    /\ UNCHANGED <<sinceEvasion, hidden, windowPos>>
    /\ UNCHANGED evasionFrame

\* the 2000 ms timer: the bubble is hidden
EvasionBubbleTimeout ==
    /\ advance("timer2000", "none")
    /\ hidden' = [hidden EXCEPT !["speech-bubble"] = TRUE]
    /\ effect' = NoEffect("other")
    /\ UNCHANGED <<opacity, sinceEvasion, currentState, windowPos>>
    /\ UNCHANGED evasionFrame

NextEvasion ==
    \/ EvasionCall
    \/ NoMonitor
    \/ FadeOut
    \/ \E kx, ky \in Randoms, ok \in BOOLEAN : EvasionTimer(kx, ky, ok)
    \/ PositionSet
    \/ TeleportFailed
    \/ FadeIn
    \/ EvasionBubbleTimeout

\* ------------------------------- chat.ts and character.ts: click and dismissal
\* the frame of a step of the chat
chatFrame == <<wiggleVars, counted, wiggleHistory, lastMouseX, jump,
               jumpBubbleTimer, opacity, evasions, monitorSize, isDragging,
               electronVars, registryVars, readerVars, asyncVars>>

\* showChatInput()
showChatInput ==
    /\ chatInputHidden' = FALSE
    /\ idleTimeout' = TRUE

\* returnToIdle(message): message is TRUE iff a text is given
returnToIdle(message) ==
    /\ chatInputHidden' = TRUE
    /\ idleTimeout' = FALSE
    /\ hidden' = [hidden EXCEPT !["speech-bubble"] = ~message]
    /\ bubbleTimeout' = message
    /\ currentState' = "idle"

\* a click on the character that onCharacterClick lets through
handleCharacterClick ==
    /\ chatInputHidden
    /\ IF currentState # "idle"
       THEN /\ UNCHANGED <<currentState, hidden, clickTimers>>
            /\ effect' = NoEffect("other")
       ELSE /\ clickTimers < MaxClickTimers
            /\ currentState' = "clicked"
            /\ hidden' = [hidden EXCEPT !["speech-bubble"] = FALSE]
            /\ clickTimers' = clickTimers + 1
            /\ effect' = NoEffect("handleCharacterClick")
    /\ UNCHANGED <<chatInputHidden, idleTimeout, bubbleTimeout>>
    /\ UNCHANGED chatFrame

\* the 1.5 s timer of handleCharacterClick
ClickTimeout ==
    /\ clickTimers > 0
    /\ clickTimers' = clickTimers - 1
    /\ showChatInput
    /\ currentState' = "listening"
    /\ effect' = NoEffect("clickTimeout")
    /\ UNCHANGED <<hidden, bubbleTimeout>>
    /\ UNCHANGED chatFrame

\* activateChat(): the chat shortcut
activateChat ==
    /\ currentState' = "listening"
    /\ hidden' = [hidden EXCEPT !["speech-bubble"] = FALSE]
    /\ showChatInput
    /\ effect' = NoEffect("activateChat")
    /\ UNCHANGED <<clickTimers, bubbleTimeout>>
    /\ UNCHANGED chatFrame

\* a click on the dismiss button of the bubble: dismissBubble()
dismissBubble ==
    /\ ~hidden["speech-bubble"]
    /\ returnToIdle(FALSE)
    /\ effect' = NoEffect("dismissBubble")
    /\ UNCHANGED clickTimers
    /\ UNCHANGED chatFrame

\* the timer held by idleTimeout: returnToIdle with a message
IdleTimeout ==
    /\ idleTimeout
    /\ returnToIdle(TRUE)
    /\ effect' = NoEffect("idleTimeout")
    /\ UNCHANGED clickTimers
    /\ UNCHANGED chatFrame

\* the timer held by bubbleTimeout: hideSpeechBubble
BubbleTimeout ==
    /\ bubbleTimeout
    /\ bubbleTimeout' = FALSE
    /\ hidden' = [hidden EXCEPT !["speech-bubble"] = TRUE]
    /\ effect' = NoEffect("other")
    /\ UNCHANGED <<currentState, chatInputHidden, clickTimers, idleTimeout>>
    /\ UNCHANGED chatFrame

\* ------------------------------------- character.ts: wiggle over the character
\* clientX of the mousemove events: columns 5, 6 and 11 pixels apart
MouseXs == {100, 105, 111}

\* time between two mousemove events: the longest that is no pause, and a pause
MoveGaps == {WIGGLE_TIMEOUT, WIGGLE_TIMEOUT + 1}

\* the frame of a step of the character module
characterFrame == <<cursorHistory, sinceEvasion, pendingChecks, teleport,
                    isWindowLocked, screensaverMode, dragModeActive,
                    oscillating, counted, opacity, currentState, evasions,
                    monitorSize, chatVars, asyncVars>>

\* Math.sign(dx) of a move that counts
Sign(dx) == IF dx > 0 THEN 1 ELSE -1

\* wiggleHistory after the reset on a pause and the push of the sign
strokes(history, dx, gap) ==
    LET kept == IF gap > WIGGLE_TIMEOUT THEN <<>> ELSE history
    IN  IF Abs(dx) > WIGGLE_MIN_SPEED
        THEN IF kept = <<>> THEN <<Sign(dx)>>
             ELSE IF kept[Len(kept)] # Sign(dx) THEN Append(kept, Sign(dx))
             ELSE kept
        ELSE kept

\* wiggleHistory.length >= WIGGLE_THRESHOLD
wiggleTriggered(history) == Len(history) >= CHARACTER_WIGGLE_THRESHOLD

\* moveToRandomLocation() up to its first animation frame
moveToRandomLocation ==
    /\ IF hidden["speech-bubble"]
       THEN /\ hidden' = [hidden EXCEPT !["speech-bubble"] = FALSE]
            /\ jumpBubbleTimer' = TRUE
       ELSE UNCHANGED <<hidden, jumpBubbleTimer>>
    /\ jump' = "animating"

\* onCharacterMouseMove(e), gap ms after the previous mousemove
onCharacterMouseMove(x, gap) ==
    /\ lastMouseX' = x
    /\ LET history == strokes(wiggleHistory, x - lastMouseX, gap)
       IN  IF wiggleTriggered(history)
           THEN /\ wiggleHistory' = <<>>
                /\ moveToRandomLocation
                /\ effect' = NoEffect("moveToRandomLocation")
           ELSE /\ wiggleHistory' = history
                /\ effect' = NoEffect("mouseMove")
                /\ UNCHANGED <<hidden, jumpBubbleTimer, jump>>
    /\ UNCHANGED <<windowPos, isDragging>>
    /\ UNCHANGED characterFrame
    /\ UNCHANGED <<electronVars, registryVars, readerVars>>

\* the last frame of animate(): the window is at the target
JumpDone(pos) ==
    /\ jump = "animating"
    /\ jump' = "none"
    /\ windowPos' = pos
    /\ effect' = NoEffect("other")
    /\ UNCHANGED <<hidden, isDragging, wiggleHistory, lastMouseX, jumpBubbleTimer>>
    /\ UNCHANGED characterFrame
    /\ UNCHANGED <<electronVars, registryVars, readerVars>>

\* setTimeout(hideSpeechBubble, 2000) of moveToRandomLocation fires
JumpBubbleTimeout ==
    /\ jumpBubbleTimer
    /\ jumpBubbleTimer' = FALSE
    /\ hidden' = [hidden EXCEPT !["speech-bubble"] = TRUE]
    /\ effect' = NoEffect("other")
    /\ UNCHANGED <<windowPos, isDragging, wiggleHistory, lastMouseX, jump>>
    /\ UNCHANGED characterFrame
    /\ UNCHANGED <<electronVars, registryVars, readerVars>>

NextCharacter ==
    \/ \E x \in MouseXs, gap \in MoveGaps : onCharacterMouseMove(x, gap)
    \/ \E pos \in WindowPositions : JumpDone(pos)
    \/ JumpBubbleTimeout

InitTauri ==
    /\ InitCommon
    /\ ReaderStarted(OneOfEach)
    /\ isWayland = FALSE
    /\ helperAvailable = FALSE
    /\ realCursor = OverCharacter

NextWiggle ==
    \/ \E move \in {"still", "reverse"}, gap \in EventGaps : CursorPos(move, gap)
    \/ \E i \in 1..MaxPending, monitor \in BOOLEAN : ResolveCheck(i, monitor)
    \/ \E pos \in WindowPositions : Teleport(pos)

\* the renderer on one of the monitors
InitEvasion ==
    /\ InitMain
    /\ ReaderStarted(OneOfEach)
    /\ isWayland = FALSE
    /\ helperAvailable = FALSE
    /\ realCursor = OverCharacter
    /\ cursorHistory = <<>>
    /\ counted = -1
    /\ CharacterLoaded
    /\ monitorSize \in Monitors

SpecEvasion == InitEvasion /\ [][NextEvasion]_vars

\* promises settle and the timers of performEvasion fire
FairSpecEvasion ==
    /\ SpecEvasion
    /\ WF_vars(NoMonitor \/ FadeOut)
    /\ WF_vars(\E kx, ky \in Randoms, ok \in BOOLEAN : EvasionTimer(kx, ky, ok))
    /\ WF_vars(PositionSet)
    /\ WF_vars(TeleportFailed)
    /\ WF_vars(FadeIn)
    /\ WF_vars(EvasionBubbleTimeout)

\* the user clicks the character, moves the mouse over it, opens the chat and
\* dismisses the bubble
NextChat ==
    \/ handleCharacterClick
    \/ ClickTimeout
    \/ activateChat
    \/ dismissBubble
    \/ IdleTimeout
    \/ BubbleTimeout
    \/ NextCharacter

SpecChat == InitTauri /\ [][NextChat]_vars

SpecCharacter == InitTauri /\ [][NextCharacter]_vars

SpecWiggle == InitTauri /\ [][NextWiggle]_vars

\* Tauri build: the cursor keeps reversing while the user chats, opens the
\* settings, toggles drag mode, and the screensaver comes and goes
NextGuard ==
    \/ \E gap \in EventGaps : CursorPos("reverse", gap)
    \/ \E i \in 1..MaxPending, monitor \in BOOLEAN : ResolveCheck(i, monitor)
    \/ \E pos \in WindowPositions : Teleport(pos)
    \/ \E v \in BOOLEAN : setWindowLocked(v)
    \/ \E v \in BOOLEAN : setScreensaverMode(v)
    \/ toggleDragMode
    \/ openSettings
    \/ closeSettings

SpecGuard == InitTauri /\ [][NextGuard]_vars

\* Tauri build: configurations are applied, at start and on every save
NextRegistry ==
    \/ \E cfg \in Configs : applyConfig(cfg)
    \/ \E f \in Features : Unregister(f)
    \/ \E f \in Features : Register(f)

SpecRegistry == InitTauri /\ [][NextRegistry]_vars

\* Tauri build: the screensaver shortcut is pressed while earlier
\* startScreensaver / stopScreensaver calls still await
NextScreensaver ==
    \/ toggleScreensaver
    \/ StartSaved
    \/ StartResized
    \/ StartFullscreen
    \/ \E stage \in {"saving", "resizing", "fullscreen"} : StartFailed(stage)
    \/ StopFaded
    \/ StopWindowed

SpecScreensaver == InitTauri /\ [][NextScreensaver]_vars

\* Tauri build: settings are saved again while the shortcut updaters of an
\* earlier applyConfig still await their answers
NextOverlap ==
    \/ \E cfg \in ChatConfigs : saveSettings(cfg)
    \/ UnregisterAnswered
    \/ RegisterAnswered

SpecOverlap == InitTauri /\ [][NextOverlap]_vars

\* the input helper reading a pointer and a keyboard, in a Wayland session
InitReader ==
    /\ InitCommon
    /\ ReaderStarted(OneOfEach)
    /\ isWayland = TRUE
    /\ helperAvailable = TRUE
    /\ realCursor = OverCharacter

NextReader ==
    \/ \E axis \in {"x", "y"}, delta \in Deltas : RelMotion(axis, delta)
    \/ \E key \in ModifierKeys \cup TriggerKeys : KeyPress(key)
    \/ \E key \in ModifierKeys : KeyRelease(key)

SpecReader == InitReader /\ [][NextReader]_vars

\* the input helper with whatever devices it could open (one at least),
\* reading them until they fail
Startups ==
    {devs \in [DeviceIds -> {"pointer", "keyboard", "none"}] :
        \E d \in DeviceIds : devs[d] # "none"}

InitDevices ==
    /\ InitCommon
    /\ \E devs \in Startups : ReaderStarted(devs)
    /\ isWayland = TRUE
    /\ helperAvailable = TRUE
    /\ realCursor = OverCharacter

NextDevices ==
    \/ NextReader
    \/ \E d \in DeviceIds : ReadError(d)
    \/ ExitOnTotalLoss

SpecDevices == InitDevices /\ [][NextDevices]_vars

\* ----------------------------------------------------------------- claims
\* the modal settings panel is open
settingsOpen == ~hidden["settings-panel"]

\* a local point lies in a tracked region that is not hidden
InVisibleRegion(p) ==
    \E id \in HoverIds :
        /\ ~(id \in HideableIds /\ hidden[id])
        /\ Rect(id).left <= p[1] /\ p[1] <= Rect(id).right
        /\ Rect(id).top <= p[2] /\ p[2] <= Rect(id).bottom

C2_DragForcesCapture ==
    (effect.op = "checkCursor" /\ isDragging) => ~ignoreMouse

\* C3 as stated: while the modal settings panel is open the window is
\* capturing after every poll tick, also during a drag.
C3_ModalForcesCapture ==
    (effect.op = "checkCursor" /\ settingsOpen) => ~ignoreMouse

HelperGone ==
    \E h \in HelperIds : helpers[h].st = "dead" /\ helpers[h].pending = "none"

\* C6 as stated: after the reader has exited or failed, the window is
\* capturing after every poll tick, whatever state was last reported.
C6_ExitFallsBackToCapture ==
    (effect.op = "checkCursor" /\ HelperGone) => ~ignoreMouse

\* C7 as stated: the real cursor resting over a visible region, a window that
\* is pass-through while the application runs eventually becomes capturing,
\* whatever the reader does.
C7_EventuallyCapturing ==
    (appPhase = "ready" /\ ignoreMouse) ~> (~ignoreMouse \/ appPhase = "quit")

\* everything but the observation of the last step
programVars == <<intervalId, isOverInteractive, sinceForceReset, isWayland,
                 helperAvailable, helperProcess, helperReady, helperCursor,
                 onShortcut, isDragMode, appPhase, ignoreMouse, hidden,
                 manualHover, isDragging, cursorPositionQ, overInteractiveQ,
                 realCursor, helpers, cursorHistory, sinceEvasion,
                 pendingChecks, windowPos, teleport, isWindowLocked,
                 screensaverMode, dragModeActive, oscillating, config,
                 currentShortcut, registered, updating, cursor, modifiers,
                 emitted, devices, ready, exitStatus, lastKey, counted,
                 wiggleHistory,
                 lastMouseX,
                 jump,
                 jumpBubbleTimer,
                 opacity,
                 currentState,
                 evasions,
                 monitorSize,
                 chatInputHidden,
                 clickTimers,
                 idleTimeout,
                 bubbleTimeout,
                 requests,
                 activeTimers,
                 lastCursorInBounds,
                 lastSent,
                 isScreensaverActive,
                 fullscreen,
                 saverCalls>>

\* C8: a line that fails to parse is discarded: the step that handles it
\* changes no state of the monitor (cursor sample, ready flag, tracked child)
\* nor anything else, so the pipe stays readable and every later line is
\* handled from the very state the bad line found.
C8_MalformedLineDiscarded ==
    [][ effect'.op = "parseError" => UNCHANGED programVars ]_vars

\* C8 witness: a malformed line has been handled with the helper ready, a
\* cursor sample held and the pipe still open
C8_Witness ==
    /\ effect.op = "parseError"
    /\ helperReady
    /\ helperCursor = OverCharacter
    /\ helperProcess # 0
    /\ helpers[helperProcess].pipe

C11_SignalledHelperDies ==
    \A h \in HelperIds : helpers[h].term ~> (helpers[h].st # "running")

\* C12 as stated: once a helper has died while the poll timer is set, the
\* monitor eventually tracks a newly spawned helper (or is stopped).
C12_RespawnAfterDeath ==
    (intervalId /\ HelperGone) ~> (helperProcess # 0 \/ ~intervalId)

\* C13 as stated: an evasion starts only when the cooldown has elapsed since
\* the previous one, also when several detections are awaiting the geometry
\* of the window at the same time.
C13_OneEvasionPerCooldown ==
    [][effect'.op = "performEvasion" => sinceEvasion >= EVASION_COOLDOWN]_vars

\* C14 as stated: no evasion starts while drag mode is active, while the
\* settings panel is open or while the screensaver is active.
C14_NoEvasionWhileBusy ==
    [][effect'.op = "performEvasion"
       => ~(dragModeActive \/ settingsOpen \/ screensaverMode)]_vars

\* the moves of a history that are not jitters, in order
Strides(history) ==
    SelectSeq([i \in 1..(Len(history) - 1) |-> history[i + 1].x - history[i].x],
              LAMBDA d : d >= 5 \/ d <= -5)

\* the number of places where two consecutive strides go opposite ways
Reversals(history) ==
    LET strides == Strides(history)
    IN  Cardinality({i \in 1..(Len(strides) - 1) :
                        (strides[i] > 0) # (strides[i + 1] > 0)})

\* the point is within the proximity radius of the centre of the window
Near(point, pos) ==
    LET cx == pos[1] + WindowSize[1] \div 2
        cy == pos[2] + WindowSize[2] \div 2
    IN  (point[1] - cx) * (point[1] - cx) + (point[2] - cy) * (point[2] - cy)
        <= PROXIMITY_THRESHOLD * PROXIMITY_THRESHOLD

\* the step resumes the i-th pending wiggle check
Resumes(i) ==
    /\ i \in 1..Len(pendingChecks)
    /\ Len(pendingChecks') = Len(pendingChecks) - 1
    /\ \A j \in 1..Len(pendingChecks') :
          pendingChecks'[j] = pendingChecks[IF j < i THEN j ELSE j + 1]

\* C15: when a pending wiggle check resumes, an evasion starts only if the
\* history then holds at least WIGGLE_THRESHOLD reversals and the cursor of
\* the check is within the proximity radius of the window as it then is; if
\* either fails no evasion starts and the time of the last evasion is kept.
C15_EvasionNeedsWiggleNearby ==
    [][\A i \in 1..MaxPending :
          Resumes(i) /\ ~(/\ Reversals(cursorHistory) >= WIGGLE_THRESHOLD
                          /\ Near(pendingChecks[i], windowPos))
          => /\ effect'.op # "performEvasion"
             /\ sinceEvasion' = sinceEvasion
             /\ teleport' = teleport]_vars

\* an evasion has just started on a history with exactly the threshold
C15_Witness ==
    /\ effect.op = "performEvasion"
    /\ sinceEvasion = 0
    /\ Reversals(cursorHistory) = WIGGLE_THRESHOLD

\* C16: after every 'cursor-pos' event the history holds at most
\* WIGGLE_HISTORY_SIZE entries, each younger than WIGGLE_TIME_WINDOW, the
\* newest being the event's; when an entry was dropped for overflow it was the
\* oldest one.  No other step writes the history.
C16_HistoryBounded ==
    [][IF effect'.op = "cursorPos"
       THEN /\ Len(cursorHistory') \in 1..WIGGLE_HISTORY_SIZE
            /\ \A i \in 1..Len(cursorHistory') :
                  cursorHistory'[i].age < WIGGLE_TIME_WINDOW
            /\ cursorHistory'[Len(cursorHistory')].age = 0
            /\ effect'.call = "shift"
               => /\ Len(cursorHistory) = WIGGLE_HISTORY_SIZE
                  /\ \A i \in 1..(WIGGLE_HISTORY_SIZE - 1) :
                        /\ cursorHistory'[i].x = cursorHistory[i + 1].x
                        /\ cursorHistory'[i].age >= cursorHistory[i + 1].age
       ELSE cursorHistory' = cursorHistory]_vars

\* an event has just overflowed the history
C16_Witness ==
    /\ effect.op = "cursorPos"
    /\ effect.call = "shift"
    /\ Len(cursorHistory) = WIGGLE_HISTORY_SIZE

\* C17: a toggle_drag shortcut flips drag mode and makes the window capturing
\* when it comes on, pass-through when it goes off; a poll tick in drag mode
\* leaves the window capturing whatever the renderer reported; a poll tick
\* out of drag mode makes it pass-through when the renderer reported no
\* interactive region and never does so when it reported one; and out of
\* drag mode, over a reported region, the window is eventually capturing.
C17_DragModeArbitration ==
    /\ [][/\ \A h \in HelperIds :
              HelperLine(h, [kind |-> "shortcut", name |-> "toggle_drag"])
              /\ onShortcut
              => isDragMode' = ~isDragMode /\ ignoreMouse' = isDragMode
          /\ effect'.op = "checkCursor" /\ isDragMode => ~ignoreMouse'
          /\ effect'.op = "checkCursor" /\ ~isDragMode /\ ~isOverInteractive
             => ignoreMouse'
          /\ effect'.op = "checkCursor" /\ ~isDragMode /\ isOverInteractive
             => (ignoreMouse' => ignoreMouse)]_vars
    /\ (intervalId /\ ~isDragMode /\ isOverInteractive /\ ignoreMouse)
         ~> (~ignoreMouse \/ ~isOverInteractive \/ isDragMode \/ ~intervalId)

\* a poll tick in drag mode has left the window capturing although the
\* renderer reported no interactive region
C17_Witness ==
    /\ effect.op = "checkCursor"
    /\ isDragMode
    /\ ~isOverInteractive
    /\ ~ignoreMouse

\* C18 as stated: an updater whose chord cannot be registered leaves the
\* other three shortcuts registered with their handlers: none of its steps
\* takes a chord away from the handler of another shortcut.
C18_FailureLeavesOthersRegistered ==
    [][\A f \in Features :
          /\ effect'.op \in {"unregister", "register", "registerFailed"}
          /\ effect'.reported = f
          /\ updating[f].newShortcut \in Unavailable
          => \A c \in Chords :
                registered[c] \in Features \ {f} => registered'[c] = registered[c]]_vars

\* C19: after every update the reconstructed cursor position is on the
\* screen: 0 <= x <= screen_width and 0 <= y <= screen_height.
C19_CursorOnScreen ==
    /\ 0 <= cursor[1] /\ cursor[1] <= ScreenWidth
    /\ 0 <= cursor[2] /\ cursor[2] <= ScreenHeight

\* a motion has left the cursor in the far corner of the screen
C19_Witness ==
    /\ effect.op = "relMotion"
    /\ cursor = <<ScreenWidth, ScreenHeight>>

\* the names of the Shortcut events the last input event wrote
FiredNames == {emitted[i].name : i \in 1..Len(emitted)}

\* C20: on a press of a trigger key a spec of the table fires if and only if
\* its key is the one pressed and its modifier set equals the set held; with
\* meta and shift held, F fires the {meta, shift}+F spec and not the {meta}+F
\* one.
C20_ExactSetMatch ==
    [][effect'.op = "keyPress" /\ effect'.call \in TriggerKeys
       => /\ \A i \in 1..Len(ShortcutSpec) :
                ShortcutSpec[i].name \in {emitted'[j].name : j \in 1..Len(emitted')}
                <=> /\ ShortcutSpec[i].key = effect'.call
                    /\ \A m \in ModifierKeys :
                          m \in ShortcutSpec[i].modifiers <=> m \in modifiers
          /\ effect'.call = "F" /\ modifiers = {"meta", "shift"}
             => {emitted'[j].name : j \in 1..Len(emitted')} = {"toggle_chat"}]_vars

\* F has just been pressed with meta and shift held, and toggle_chat fired
C20_Witness ==
    /\ effect.op = "keyPress"
    /\ effect.call = "F"
    /\ modifiers = {"meta", "shift"}
    /\ FiredNames = {"toggle_chat"}

\* C21: the bit of each modifier is set if and only if the last event
\* observed for that key was a press (one no release has followed).
C21_ModifierBits ==
    \A m \in ModifierKeys : m \in modifiers <=> lastKey[m] = "press"

\* a modifier has been pressed twice in a row and another one released
\* without having been pressed
C21_Witness ==
    /\ effect.op = "keyPress"
    /\ effect.call = "meta"
    /\ "meta" \in modifiers
    /\ lastKey["shift"] = "release"
    /\ lastKey["ctrl"] = "press"

\* some device is open
SomeDeviceOpen == \E d \in DeviceIds : devices[d] # "none"

\* the last input event made the helper write an Error event
ErrorEmitted == \E i \in 1..Len(emitted) : emitted[i].type = "error"

\* C22, amended: a read error closes the device it occurred on and no other,
\* and the helper goes on running; the Error event it writes is fatal exactly
\* when no device is left; the process exits only with no device left, with
\* a non-zero status, the fatal Error event being the last thing written.
C22_ErrorClosesOneDevice ==
    /\ [][/\ effect'.op = "readError"
             => /\ \E d \in DeviceIds :
                      /\ devices[d] # "none"
                      /\ \A x \in DeviceIds :
                            devices'[x] = IF x = d THEN "none" ELSE devices[x]
                /\ exitStatus' = Running
                /\ Len(emitted') = 1
                /\ emitted'[1].type = "error"
                /\ emitted'[1].fatal <=> ~SomeDeviceOpen'
          /\ effect'.op # "readError" => devices' = devices]_vars
    /\ [](exitStatus # Running
           => /\ exitStatus # 0
              /\ ~SomeDeviceOpen
              /\ emitted = <<[type |-> "error", fatal |-> TRUE]>>)

\* the helper has lost a first device and gone on, then lost the last one
\* and exited
C22_Witness ==
    /\ exitStatus = 1
    /\ ready.pointer_count + ready.keyboard_count >= 2
    /\ emitted = <<[type |-> "error", fatal |-> TRUE]>>

\* C22 as stated: the same, and an Error event is written only when no
\* device remains open.
C22_ErrorOnlyOnTotalLoss ==
    /\ C22_ErrorClosesOneDevice
    /\ [](ErrorEmitted => ~SomeDeviceOpen)

\* C23: a helper that starts with no keyboard reports keyboard_count = 0 in
\* its Ready event, writes a Cursor event with the new position for every
\* pointer motion, and never writes a Shortcut event.
C23_NoKeyboardNoShortcut ==
    /\ countOf(devices, "keyboard") = 0 => ready.keyboard_count = 0
    /\ [](ready.keyboard_count = 0
           => \A i \in 1..Len(emitted) : emitted[i].type # "shortcut")
    /\ [][ready.keyboard_count = 0 /\ effect'.op = "relMotion"
          => emitted' = <<[type |-> "cursor", pos |-> cursor']>>]_vars

\* started without a keyboard, the helper has just reported a motion
C23_Witness ==
    /\ ready.keyboard_count = 0
    /\ effect.op = "relMotion"
    /\ emitted = <<[type |-> "cursor", pos |-> cursor]>>
    /\ cursor # <<ScreenWidth \div 2, ScreenHeight \div 2>>

\* the monitor tracks a child: one was spawned, and neither its exit or error
\* event has been handled nor has it been stopped since
TrackedHelper == helperProcess # 0

\* C24: one cursor transport at a time. A helper is spawned only in a Wayland
\* session, and a poll tick takes its sample from the helper's last cursor
\* event only if the session is Wayland and a ready event came from a helper
\* that has not exited or been stopped since (so that such a helper exists).
C24_HelperSampleNeedsLiveHelper ==
    /\ [](~isWayland => \A h \in HelperIds : helpers[h].st = "none")
    /\ [][effect'.op = "checkCursor" /\ isWayland /\ helperReady
          => TrackedHelper]_vars

\* a poll tick taken while the renderer's last report is "over an
\* interactive element"
InteractiveTick == effect'.op = "checkCursor" /\ isOverInteractive

\* C25 (as amended): on a tick over an interactive element the main process
\* never calls setIgnoreMouseEvents(true); outside drag mode it calls
\* setIgnoreMouseEvents(false) only when more than FORCE_RESET_INTERVAL has
\* passed since it last did so, and restarts the interval then; in drag mode
\* it calls setIgnoreMouseEvents(false) on every tick.
C25_ForceResetSpacing ==
    [][InteractiveTick =>
          /\ effect'.call # "ignore"
          /\ isDragMode => effect'.call = "capture" /\ sinceForceReset' = Elapsed
          /\ ~isDragMode /\ effect'.call = "capture"
                => Elapsed > FORCE_RESET_INTERVAL /\ sinceForceReset' = 0
          /\ ~isDragMode /\ effect'.call # "capture"
                => Elapsed <= FORCE_RESET_INTERVAL /\ sinceForceReset' = Elapsed]_vars

\* the interval has just been restarted by a tick over an interactive element
C25_Witness ==
    /\ effect.op = "checkCursor"
    /\ effect.call = "capture"
    /\ isOverInteractive
    /\ ~isDragMode
    /\ sinceForceReset = 0

\* C25 (as stated): on a tick over an interactive element the main process
\* never calls setIgnoreMouseEvents(true), and calls setIgnoreMouseEvents(false)
\* at most once per FORCE_RESET_INTERVAL.
C25_AtMostOncePerInterval ==
    [][InteractiveTick =>
          /\ effect'.call # "ignore"
          /\ effect'.call = "capture" => Elapsed > FORCE_RESET_INTERVAL]_vars

\* C26: the wiggle check counts over the moves that are not jitters (five
\* pixels or more): a move of less than five pixels neither counts nor
\* changes the direction remembered, a change is counted exactly when such a
\* move goes the opposite way to the one before it, and the first counts as
\* none.
C26_JitterIgnored ==
    counted # -1 => counted = Reversals(cursorHistory)

\* the loop has counted a change in a history that holds a jitter
C26_Witness ==
    /\ counted = 1
    /\ Len(cursorHistory) = 4
    /\ Len(Strides(cursorHistory)) = 2

\* the direction flips in a sequence of strokes
FlipsIn(history) ==
    Cardinality({i \in 1..(Len(history) - 1) : history[i] # history[i + 1]})

\* C27: the character relocates only when the strokes of the mouse over it,
\* none of them after a pause of more than WIGGLE_TIMEOUT, have flipped
\* direction 4 times; the move that triggers adds one flip at most.
C27_RelocatesAtFourFlips ==
    [][effect'.op = "moveToRandomLocation"
       => FlipsIn(wiggleHistory) + 1 >= CHARACTER_WIGGLE_THRESHOLD]_vars

\* the largest position performEvasion means to choose on an axis
MaxTarget(axis) == monitorSize[axis] - BOX_SIZE - EVASION_PADDING

\* C28 (as amended): on an axis where the monitor is at least
\* 300 + 2 * padding long, the position chosen by performEvasion lies between
\* padding and size - 300 - padding; on a shorter axis the two ends swap, and
\* the position lies between size - 300 - padding and padding.
C28_TargetBetweenEnds ==
    effect.op = "setPosition"
    => \A axis \in {1, 2} :
          IF EVASION_PADDING <= MaxTarget(axis)
          THEN /\ EVASION_PADDING <= effect.sample[axis]
               /\ effect.sample[axis] <= MaxTarget(axis)
          ELSE /\ MaxTarget(axis) <= effect.sample[axis]
               /\ effect.sample[axis] <= EVASION_PADDING

\* a position has been chosen on a monitor shorter than 300 + 2 * padding,
\* nearer to the edge than the padding, and the window has been put there
C28_Witness ==
    /\ effect.op = "setPosition"
    /\ MaxTarget(1) < EVASION_PADDING
    /\ effect.sample[1] < EVASION_PADDING
    /\ windowPos = effect.sample

\* C28 (as stated): whatever the size of the monitor, the position chosen
\* by performEvasion is on the screen and keeps the padding on both axes.
C28_OnScreenPadded ==
    effect.op = "setPosition"
    => \A axis \in {1, 2} :
          /\ EVASION_PADDING <= effect.sample[axis]
          /\ effect.sample[axis] <= MaxTarget(axis)
          /\ effect.sample[axis] + BOX_SIZE <= monitorSize[axis]

\* C29: an evasion fades out, repositions and fades in, in that order, and
\* the window ends visible. No fade happens before the time of the last
\* evasion has been set; setPosition is called only by a call that has faded
\* out and waited for its timer; whenever the window is invisible it becomes
\* visible again, whether setPosition succeeds or fails; and once every call
\* has run to its end the window is visible.
C29_EndsVisible ==
    /\ [][opacity' # opacity => sinceEvasion = 0 /\ inFlight > 0]_vars
    /\ [][effect'.op = "setPosition" => evasions["timer250"] > 0]_vars
    /\ [][effect'.op = "fadeIn" => evasions["timer300"] > 0 /\ opacity' = 1]_vars
    /\ opacity = 0 ~> opacity = 1
    /\ [](inFlight = 0 => opacity = 1)

\* setPosition has failed and the catch block has made the window visible
C29_Witness ==
    /\ effect.op = "teleportFailed"
    /\ opacity = 1
    /\ inFlight = 0
    /\ sinceEvasion = 0

\* the operations that a new interaction of the user starts
UserInteractions == {"handleCharacterClick", "activateChat", "dismissBubble",
                     "mouseMove", "moveToRandomLocation"}

\* C30: after dismissBubble the bubble and the chat input are hidden and the
\* state is idle, and the step that follows, unless it is a new interaction
\* of the user, leaves them so: also the 1.5 s timer of a click that was
\* pending when the bubble was dismissed.
C30_DismissedStaysIdle ==
    /\ [](effect.op = "dismissBubble"
           => /\ currentState = "idle"
              /\ chatInputHidden
              /\ hidden["speech-bubble"])
    /\ [][effect.op = "dismissBubble" /\ effect'.op \notin UserInteractions
          => /\ currentState' = "idle"
             /\ chatInputHidden'
             /\ hidden'["speech-bubble"]]_vars

\* the chords that trigger the action of shortcut f
ChordsOf(f) == {c \in Chords : registered[c] = f}

\* C31 as stated: update*Shortcut(new) does nothing when new is the current
\* chord and otherwise unregisters the current chord before it registers the
\* new one, so that after a successful update only the new chord triggers
\* the action: when a register call of the updater of f has succeeded, the
\* chord now remembered is the only chord registered with the handler of f.
C31_OnlyNewChordAfterUpdate ==
    [][\A f \in Features :
          effect'.op = "register" /\ effect'.reported = f
          => ChordsOf(f)' = {currentShortcut'[f]}]_vars

\* C36 as stated: while no call of the updater of f is in progress, the
\* remembered current chord of f is non-empty only if that chord is
\* registered with the handler of f.
C36_CurrentChordIsRegistered ==
    \A f \in Features :
        updating[f] = Idle /\ currentShortcut[f] # 0
        => registered[currentShortcut[f]] = f

\* C37 as stated: when calls of one shortcut updater have overlapped, at
\* quiescence no chord other than the one remembered as current is
\* registered for the action.
C37_OverlapLeavesOneChord ==
    requests = <<>>
    => \A f \in Features : ChordsOf(f) \subseteq {currentShortcut[f]}

\* C32: start() is idempotent. Exactly one poll timer is active while the
\* monitor is started (none while it is stopped), and a call of start() that
\* finds the timer set changes nothing: it sets no timer and spawns no
\* helper, whether or not the helper of the first call is still tracked.
C32_StartIdempotent ==
    /\ [](activeTimers = IF intervalId THEN 1 ELSE 0)
    /\ [][effect'.op = "start" /\ intervalId
          => /\ activeTimers' = activeTimers
             /\ helpers' = helpers
             /\ helperProcess' = helperProcess]_vars

\* start() has been called again after the helper of the first call has
\* exited and its exit event was handled: one timer, no second helper
C32_Witness ==
    /\ effect.op = "start"
    /\ effect.call = "repeated"
    /\ activeTimers = 1
    /\ helperProcess = 0
    /\ Cardinality({h \in HelperIds : helpers[h].st # "none"}) = 1

\* C34 as stated: helperReady is true only while a helper process is
\* tracked.
C34_ReadyOnlyWhileTracked == helperReady => helperProcess # 0

\* the helpers that run and have not been sent a termination signal
Unsignalled == {h \in HelperIds : helpers[h].st = "running" /\ ~helpers[h].term}

\* C35 as stated: at most one helper runs without having been sent a
\* termination signal, and when stop() returns every helper that was spawned
\* has exited or has been sent the signal.
C35_NoOrphanedHelper ==
    /\ [](Cardinality(Unsignalled) <= 1)
    /\ [][effect'.op = "stop" => Unsignalled' = {}]_vars

\* C33 as stated: cursor-bounds-changed notifications are edge-triggered, so
\* consecutive notifications alternate between entered and left: a
\* notification never repeats the one sent before it.
C33_NotificationsAlternate ==
    [][effect'.op = "checkCursorBounds" /\ effect'.call # "none"
       => effect'.call # lastSent]_vars

\* C38 as stated: whenever no startScreensaver or stopScreensaver call is in
\* progress (and none has failed), the body carries screensaver-mode and the
\* window is fullscreen if and only if isScreensaverActive is true.
C38_MarkerAgreesWithFlag ==
    saverInFlight = 0 /\ saverCalls["failed"] = 0
    => /\ screensaverMode <=> isScreensaverActive
       /\ fullscreen <=> isScreensaverActive

\* C39 as stated: every evasion attempt leaves the character usable: once
\* performEvasion has set the state to CLICKED, the state eventually is IDLE
\* again, on every path of the call.
C39_EvasionReturnsToIdle ==
    (effect.op = "performEvasion" /\ currentState = "clicked")
        ~> (currentState = "idle")
====
